---- MODULE Spec2Model ----
(***************************************************************************)
(* A model of the FileEnumerator class (lib/lookup/file-enumerator.js):    *)
(* target-file discovery, cascading configuration lookup with its two      *)
(* caches, and finalization.  Config arrays are objects with identity: an  *)
(* array is an index into `heap`, and heap[id] is its element sequence.    *)
(* The configuration factory, the ignore predicate and the validator are   *)
(* collaborators whose code is outside the modelled file.                  *)
(***************************************************************************)
EXTENDS Integers, Sequences, FiniteSets, TLC

VARIABLES
    options,     \* the constructor options of the enumerator (never reassigned)
    files,       \* the file system: what a config load finds in each directory
    homedir,     \* os.homedir()
    pool,        \* the plugin "test" is in the factory's additionalPluginPool
    heap,        \* heap[id]: the element sequence of config array `id`
    slots,       \* the internal slots: base/CLI arrays, configCache, finalizeCache
    iter,        \* the (single) iterateFiles generator of the run
    last,        \* the outcome of the most recent call (observation)
    hist,        \* what callers have observed so far (observation)
    calls,       \* number of API calls made (bounded)
    extracted    \* an ExtractedConfig and what its conversion returned

vars == <<options, files, homedir, pool, heap, slots, iter, last, hist, calls,
          extracted>>

----------------------------------------------------------------------------
\* Bounds of the model
MaxCalls == 3
MaxIterations == 1
MaxPatterns == 2
MaxPlugins == 3

\* File entry flags
NONE == 0
IGNORED_SILENTLY == 1
IGNORED == 2

----------------------------------------------------------------------------
\* Paths.  An absolute path is the sequence of its segments; "/" is << >>.

RootDir == << >>
DirA == <<"a">>
DirB == <<"a", "b">>
DirC == <<"c">>
DirH == <<"c", ".h">>
DirX == <<"x">>
\* a directory whose entries have names that read as globs: the empty
\* directory "*", the file "*.js" and the directory "**"
DirG == <<"g">>
DirStars == <<"g", "**">>
DirEmpty == <<"g", "*">>

\* directories that exist on disk; DirX does not exist
ExistingDirs == {RootDir, DirA, DirB, DirC, DirH, DirG, DirStars, DirEmpty}
AllDirs == ExistingDirs \cup {DirX}

\* fs.readdirSync(dir): the names in a directory, in listing order
Listing(dir) ==
    CASE dir = RootDir -> <<"a", "c", "g">>
      [] dir = DirA -> <<".foo.js", "b", "one.js">>
      [] dir = DirB -> <<"one.js", "two.js">>
      [] dir = DirC -> <<".foo.js", ".h">>
      [] dir = DirH -> <<"x.js">>
      [] dir = DirG -> <<"*", "*.js", "**", "one.js">>
      [] dir = DirStars -> <<"two.js">>
      [] OTHER -> << >>

RECURSIVE FilesUnder(_, _)
FilesUnder(dir, k) ==
    IF k > Len(Listing(dir)) THEN {}
    ELSE LET p == Append(dir, Listing(dir)[k])
         IN (IF p \in ExistingDirs THEN {} ELSE {p}) \cup FilesUnder(dir, k + 1)

ExistingFiles == UNION {FilesUnder(d, 1) : d \in ExistingDirs}

\* path.dirname(p)
Dirname(p) == IF p = << >> THEN << >> ELSE SubSeq(p, 1, Len(p) - 1)

\* a path argument as the caller writes it: absolute, or relative to cwd
Abs(p) == [abs |-> TRUE, segs |-> p]
Rel(p) == [abs |-> FALSE, segs |-> p]

\* path.normalize: "." segments are dropped
Normalize(segs) == SelectSeq(segs, LAMBDA n : n # ".")

\* path.resolve(cwd, p)
Resolve(cwd, p) == Normalize(IF p.abs THEN p.segs ELSE cwd \o p.segs)

----------------------------------------------------------------------------
\* Config arrays and the configuration factory.
\* The threaded program state is s = [heap, slots]; an operation returns
\* [s, val, err]: the state it leaves, the value it returns and the error it
\* throws ("" for none).  s.loads notes the loadOnDirectory calls made by the
\* running API call, in order.

Ret(s, val) == [s |-> s, val |-> val, err |-> "", data |-> << >>]
Throw(s, err) == [s |-> s, val |-> 0, err |-> err, data |-> << >>]

\* `const r = e; Body(r)`: e is computed once and its value is named
Bind(e, Body(_)) == CHOOSE v \in {Body(r) : r \in {e}} : TRUE

\* a call Op(a, b) whose arguments are computed before the call
Call(Op(_, _), a, b) == CHOOSE v \in {Op(x, y) : x \in {a}, y \in {b}} : TRUE

\* new ConfigArray(...elems): a fresh object, with no finalizeCache entry
Alloc(s, elems) ==
    [s EXCEPT !.heap = Append(@, elems),
              !.slots.finalizeCache = Append(@, 0)]

NewId(s) == Len(s.heap) + 1

\* a ConfigElement: filePath << >> stands for the empty string; plugin is the
\* state of its plugin "test": "" (not named), "error" (definition null, a
\* loading error) or "loaded"
Elem(name, filePath, root, valid) ==
    [name |-> name, filePath |-> filePath, root |-> root, valid |-> valid,
     plugin |-> ""]

HasFilePath(e) == e.filePath # << >>

\* the config file found in each kind of directory
DirKinds == {"none", "plain", "root", "invalid", "eacces", "error"}

\* the elements the factory reads from the config file of `dir`
DirElements(dir, name) ==
    LET kind == files[dir]
        fp == Append(dir, ".eslintrc")
    IN CASE kind = "plain" -> <<Elem(name, fp, FALSE, TRUE)>>
         [] kind = "root" -> <<Elem(name, fp, TRUE, TRUE)>>
         [] kind = "invalid" -> <<Elem(name, fp, FALSE, FALSE)>>
         [] OTHER -> << >>

\* the error a config load in `dir` raises
DirLoadError(dir) ==
    CASE files[dir] = "eacces" -> "EACCES"
      [] files[dir] = "error" -> "LoadError"
      [] OTHER -> ""

\* the factory resolves the plugin "test" from its pool when it creates an
\* element that names it
LoadPlugin(s) == IF s.pool THEN "loaded" ELSE "error"

\* ConfigArrayFactory#create(data, { name }); data "obj" is { plugins: ["test"] }
FactoryCreate(s, data, name) ==
    Ret(Alloc(s, IF data = "null" THEN << >>
                 ELSE <<[Elem(name, << >>, FALSE, TRUE) EXCEPT
                            !.plugin = LoadPlugin(s)]>>), NewId(s))

\* ConfigArrayFactory#loadFile(filePath, { name })
FactoryLoadFile(s, filePath, name) ==
    Ret(Alloc(s, <<Elem(name, filePath, FALSE, TRUE)>>), NewId(s))

\* the program state after one more call of loadOnDirectory was noted
Logged(s, dir, name) == [s EXCEPT !.loads = Append(@, [dir |-> dir, name |-> name])]

\* ConfigArrayFactory#loadOnDirectory(dir, { name, parent }); parent 0: none.
\* With a parent and no config file in dir, the parent itself is returned.
FactoryLoadOnDirectory(s, dir, name, parent) ==
    LET elems == DirElements(dir, name)
        called == Logged(s, dir, name)
    IN IF DirLoadError(dir) # "" THEN Throw(called, DirLoadError(dir))
       ELSE IF parent = 0 THEN Ret(Alloc(called, elems), NewId(s))
       ELSE IF elems = << >> THEN Ret(called, parent)
       ELSE Ret(Alloc(called, s.heap[parent] \o elems), NewId(s))

\* ConfigArray#root: the `root` of the last element
ArrayRoot(arr) == Len(arr) > 0 /\ arr[Len(arr)].root

\* validateConfigArray(array): TRUE iff it does not throw
ValidateConfigArray(arr) == \A i \in 1..Len(arr) : arr[i].valid

\* createBaseConfigArray(slots)
CreateBaseConfigArray(s) ==
    Bind(FactoryCreate(s, options.baseConfig, "BaseConfig"), LAMBDA c :
        IF options.rulePaths
        THEN Ret([c.s EXCEPT !.heap[c.val] =
                    Append(@, Elem("--rulesdir", << >>, FALSE, TRUE))], c.val)
        ELSE c)

\* a builder that appends the --config file to the CLI options
CreateCLIConfigArrayPushes(s) ==
    Bind(FactoryCreate(s, options.cliConfig, "CLIOptions"), LAMBDA c :
        IF options.specificConfigPath
        THEN Bind(FactoryLoadFile(c.s, <<"config.json">>, "--config"), LAMBDA f :
                Ret([f.s EXCEPT !.heap[c.val] = @ \o f.s.heap[f.val]], c.val))
        ELSE c)

\* createCLIConfigArray(slots)
CreateCLIConfigArray(s) ==
    Bind(FactoryCreate(s, options.cliConfig, "CLIOptions"), LAMBDA c :
        IF options.specificConfigPath
        THEN Bind(FactoryLoadFile(c.s, <<"config.json">>, "--config"), LAMBDA f :
                Ret([f.s EXCEPT !.heap[c.val] = f.s.heap[f.val] \o @], c.val))
        ELSE c)

----------------------------------------------------------------------------
\* The ancestor resolver.

\* a resolver that never remembers a directory's array
SetConfigCacheNever(s, dir, id) == s

SetConfigCache(s, dir, id) == [s EXCEPT !.slots.configCache[dir] = id]

\* a resolver that ascends past root: true
StopsTraversingNever(arr) == FALSE

\* the array of a directory that halts the upward walk (root: true)
StopsTraversing(arr) == Len(arr) > 0 /\ ArrayRoot(arr)

\* a resolver that never stops at the home directory
StopsAtHomeNever(directoryPath) == FALSE

\* a resolver that stops at the home directory whatever cwd is
StopsAtHomeAnyCwd(directoryPath) == directoryPath = homedir

\* directoryPath === homePath && cwd !== homePath
StopsAtHome(directoryPath) == directoryPath = homedir /\ options.cwd # homedir

\* a resolver that takes no error for access-denied
IsAccessDeniedNever(err) == FALSE

\* error.code === "EACCES"
IsAccessDenied(err) == err = "EACCES"

\* a merge that appends the directory's elements to the ancestors' array
MergeAncestorsInPlace(s, configArray, ancestors) ==
    Ret([s EXCEPT !.heap[ancestors] = @ \o s.heap[configArray]], ancestors)

\* a merge that always prepends the ancestors to the directory's own array
MergeAncestorsIntoOwn(s, configArray, ancestors) ==
    Ret([s EXCEPT !.heap[configArray] = s.heap[ancestors] \o @], configArray)

\* "Load from the ancestors and merge it": the ancestors' elements are
\* unshifted into a non-empty array, an empty array gives way to the
\* ancestors' array itself
MergeAncestors(s, configArray, ancestors) ==
    IF Len(s.heap[configArray]) > 0
    THEN Ret([s EXCEPT !.heap[configArray] = s.heap[ancestors] \o @], configArray)
    ELSE Ret(s, ancestors)

\* a resolver that caches the array of a directory before it ascends
RethrowsCached(up, directoryPath, configArray) ==
    [up EXCEPT !.s = SetConfigCache(up.s, directoryPath, configArray)]

\* the recursive call for the parent throws: the error leaves the call before
\* configCache.set(directoryPath, configArray) is reached
Rethrows(up, directoryPath, configArray) == up

\* FileEnumerator#_loadConfigInAncestorsRecursive(filePath)
RECURSIVE LoadConfigInAncestorsRecursive(_, _)
LoadConfigInAncestorsRecursive(s, filePath) ==
    LET baseConfigArray == s.slots.baseConfigArray
        directoryPath == Dirname(filePath)
    IN
    IF ~options.useEslintrc THEN Ret(s, baseConfigArray)
    ELSE IF s.slots.configCache[directoryPath] # 0
    THEN Ret(s, s.slots.configCache[directoryPath])
    ELSE IF \/ directoryPath = filePath
            \/ StopsAtHome(directoryPath)
    THEN Ret(SetConfigCache(s, directoryPath, baseConfigArray), baseConfigArray)
    ELSE
    Bind(FactoryLoadOnDirectory(s, directoryPath, ".eslintrc", 0), LAMBDA ld :
    IF IsAccessDenied(ld.err)
    THEN Ret(SetConfigCache(ld.s, directoryPath, baseConfigArray), baseConfigArray)
    ELSE IF ld.err # "" THEN ld
    ELSE IF StopsTraversing(ld.s.heap[ld.val])
    THEN Ret(SetConfigCache(ld.s, directoryPath, ld.val), ld.val)
    ELSE
    Bind(LoadConfigInAncestorsRecursive(ld.s, directoryPath), LAMBDA up :
    IF up.err # "" THEN Rethrows(up, directoryPath, ld.val)
    ELSE Bind(MergeAncestors(up.s, ld.val, up.val), LAMBDA merged :
            Ret(SetConfigCache(merged.s, directoryPath, merged.val), merged.val))))

\* FileEnumerator#_loadConfigInAncestors(filePath)
LoadConfigInAncestors(s, filePath) == LoadConfigInAncestorsRecursive(s, filePath)

\* FileEnumerator#_loadConfigOnDirectory(directoryPath, parentConfigArray)
LoadConfigOnDirectory(s, directoryPath, parentConfigArray) ==
    IF ~options.useEslintrc THEN Ret(s, parentConfigArray)
    ELSE FactoryLoadOnDirectory(s, directoryPath, ".eslintrc", parentConfigArray)

----------------------------------------------------------------------------
\* The finalizer.

\* array.every(c => !c.filePath)
EveryNoFilePath(arr) == \A i \in 1..Len(arr) : ~HasFilePath(arr[i])

\* a finalizer that rejects an empty array whatever useEslintrc is
FinalizeCheckAnyMode(s, finalConfigArray, directoryPath) ==
    IF Len(s.heap[finalConfigArray]) = 0
    THEN [s |-> s, val |-> 0, err |-> "ConfigurationNotFound",
          data |-> directoryPath]
    ELSE Ret(s, finalConfigArray)

\* the tail of _finalizeConfigArray: the emptiness check made on every call
FinalizeCheck(s, finalConfigArray, directoryPath) ==
    IF options.useEslintrc /\ Len(s.heap[finalConfigArray]) = 0
    THEN [s |-> s, val |-> 0, err |-> "ConfigurationNotFound",
          data |-> directoryPath]
    ELSE Ret(s, finalConfigArray)

\* a finalizer that forgets that --config can be a file
LoadsPersonalConfigCLIUnseen(s, configArray) ==
    options.useEslintrc /\ EveryNoFilePath(s.heap[configArray])

\* whether the personal config is loaded: if there are no regular config files
LoadsPersonalConfig(s, configArray) ==
    /\ options.useEslintrc
    /\ EveryNoFilePath(s.heap[configArray])
    /\ EveryNoFilePath(s.heap[s.slots.cliConfigArray])

\* a finalizer that never remembers its result
SetFinalizeCacheNever(s, configArray, finalConfigArray) == s

\* a finalizer that remembers its result only after the emptiness check
SetFinalizeCacheUnlessEmpty(s, configArray, finalConfigArray) ==
    IF options.useEslintrc /\ Len(s.heap[finalConfigArray]) = 0 THEN s
    ELSE [s EXCEPT !.slots.finalizeCache[configArray] = finalConfigArray]

\* finalizeCache.set(configArray, finalConfigArray)
SetFinalizeCache(s, configArray, finalConfigArray) ==
    [s EXCEPT !.slots.finalizeCache[configArray] = finalConfigArray]

\* a finalizer that remembers the array it rejects
ValidationThrowsCached(s, configArray, finalConfigArray) ==
    Throw([s EXCEPT !.slots.finalizeCache[configArray] = finalConfigArray],
          "ValidationError")

\* validateConfigArray(finalConfigArray) throws: the statements after it,
\* finalizeCache.set among them, do not run
ValidationThrows(s, configArray, finalConfigArray) == Throw(s, "ValidationError")

\* FileEnumerator#_finalizeConfigArray(configArray, directoryPath)
FinalizeConfigArray(s, configArray, directoryPath) ==
    LET cliConfigArray == s.slots.cliConfigArray
        cached == s.slots.finalizeCache[configArray]
    IN
    IF cached # 0 THEN FinalizeCheck(s, cached, directoryPath)
    ELSE
    Bind(IF LoadsPersonalConfig(s, configArray)
         THEN FactoryLoadOnDirectory(s, homedir, "PersonalConfig", configArray)
         ELSE Ret(s, configArray), LAMBDA personal :
    IF personal.err # "" THEN personal
    ELSE
    Bind(IF Len(personal.s.heap[cliConfigArray]) > 0
         THEN Ret(Alloc(personal.s, personal.s.heap[personal.val]
                                        \o personal.s.heap[cliConfigArray]),
                  NewId(personal.s))
         ELSE personal, LAMBDA final :
    IF ~ValidateConfigArray(final.s.heap[final.val])
    THEN ValidationThrows(final.s, configArray, final.val)
    ELSE FinalizeCheck(SetFinalizeCache(final.s, configArray, final.val),
                       final.val, directoryPath)))

\* the argument of a call made with no argument (undefined)
NoArgument == [undefined |-> TRUE]

\* a default argument that names a file of the root directory
DefaultFilePathInRoot == Abs(<<"a.js">>)

\* the default of the parameter: filePath = "a.js"
DefaultFilePath == Rel(<<"a.js">>)

\* the value of the parameter filePath for a given argument
OrDefault(filePath) == IF filePath = NoArgument THEN DefaultFilePath ELSE filePath

\* FileEnumerator#getConfigArrayForFile(filePath)
GetConfigArrayForFile(s, filePath) ==
    LET absolutePath == Resolve(options.cwd, OrDefault(filePath))
    IN Bind(LoadConfigInAncestors(s, absolutePath), LAMBDA config :
        IF config.err # "" THEN config
        ELSE FinalizeConfigArray(config.s, config.val, Dirname(absolutePath)))

\* a clearCache() that empties the directory cache only
ClearCacheOpMapOnly(s) == [s EXCEPT !.slots.configCache = [d \in AllDirs |-> 0]]

\* a clearCache() that rebuilds the base array and keeps the CLI array
ClearCacheOpKeepsCLI(s) ==
    Bind(CreateBaseConfigArray(s), LAMBDA b :
        [b.s EXCEPT !.slots.baseConfigArray = b.val,
                    !.slots.configCache = [d \in AllDirs |-> 0]])

\* FileEnumerator#clearCache()
ClearCacheOp(s) ==
    Bind(CreateBaseConfigArray(s), LAMBDA b :
    Bind(CreateCLIConfigArray(b.s), LAMBDA c :
        [c.s EXCEPT !.slots.baseConfigArray = b.val,
                    !.slots.cliConfigArray = c.val,
                    !.slots.configCache = [d \in AllDirs |-> 0]]))

----------------------------------------------------------------------------
\* Patterns.  A pattern is a path argument whose segments may be globs; the
\* empty string is the relative pattern with no segment.

EmptyPattern == Rel(<< >>)

\* segments that is-glob recognises as globs
IsGlobSegment(g) == g \in {"*.js", ".*.js", "**", "*"}

\* a segment "." followed by a character that is neither "." nor a separator
IsDotName(n) == n \in {".foo.js", ".*.js", ".h"}

\* a name ending in ".js" with at least one character before it
EndsWithJs(n) == n \in {"one.js", "two.js", "bar.js", ".foo.js", "x.js", "*.js"}

\* isGlobPattern(pattern)
IsGlobPattern(pattern) == \E i \in 1..Len(pattern.segs) : IsGlobSegment(pattern.segs[i])

\* a test that selects the dotfile-excluding predicate for every pattern
DotfilesPatternTestNever(pattern) == FALSE

\* dotfilesPattern.test(pattern)
DotfilesPatternTest(pattern) == \E i \in 1..Len(pattern.segs) : IsDotName(pattern.segs[i])

\* extRegExp.test(filePath), for the default extensions [".js"]
ExtRegExpTest(filePath) == filePath # << >> /\ EndsWithJs(filePath[Len(filePath)])

\* getGlobParent(pattern): the segments before the first glob segment
RECURSIVE GlobParentLen(_, _)
GlobParentLen(segs, k) ==
    IF k > Len(segs) \/ IsGlobSegment(segs[k]) THEN k - 1
    ELSE GlobParentLen(segs, k + 1)

GetGlobParent(absPattern) == SubSeq(absPattern, 1, GlobParentLen(absPattern, 1))

\* a segment without its first character
DropFirstChar(g) ==
    CASE g = "**" -> "*"
      [] g = "*.js" -> ".js"
      [] g = ".*.js" -> "*.js"
      [] g = "*" -> ""
      [] OTHER -> g

\* pattern.slice(directoryPath.length + 1): the text of "/" has length 1, so
\* under the root the slice also drops the first character of the glob part
GlobPart(absPattern) ==
    LET n == GlobParentLen(absPattern, 1)
        rest == SubSeq(absPattern, n + 1, Len(absPattern))
    IN IF n = 0 /\ rest # << >>
       THEN <<DropFirstChar(rest[1])>> \o Tail(rest)
       ELSE rest

\* a test that makes every glob walk recursive
RecursiveTestAlways(globPart) == TRUE

\* /\*\*|\/|\\/u.test(globPart)
RecursiveTest(globPart) ==
    Len(globPart) > 1 \/ \E i \in 1..Len(globPart) : globPart[i] = "**"

\* one segment of a Minimatch pattern against one name (dot: true)
SegmentMatch(g, n) ==
    CASE g = "*" -> TRUE
      [] g = "*.js" -> EndsWithJs(n)
      [] g = ".*.js" -> IsDotName(n) /\ EndsWithJs(n)
      [] OTHER -> g = n

\* new Minimatch(pattern, minimatchOpts).match(filePath)
RECURSIVE MinimatchMatch(_, _)
MinimatchMatch(pat, p) ==
    IF pat = << >> THEN p = << >>
    ELSE IF Head(pat) = "**"
    THEN MinimatchMatch(Tail(pat), p)
         \/ (p # << >> /\ MinimatchMatch(pat, Tail(p)))
    ELSE p # << >> /\ SegmentMatch(Head(pat), Head(p))
                   /\ MinimatchMatch(Tail(pat), Tail(p))

----------------------------------------------------------------------------
\* The ignore predicate (IgnoredPaths).

\* the built-in default patterns: dotfiles, unless the instance has dotfiles: true
DefaultIgnored(filePath, dotfiles) ==
    ~dotfiles /\ \E i \in 1..Len(filePath) : IsDotName(filePath[i])

\* the patterns of the user: a path is ignored with every path below it
CustomIgnored(filePath) ==
    \E i \in 0..Len(filePath) : SubSeq(filePath, 1, i) \in options.ignorePattern

\* IgnoredPaths#contains(filePath, category); the user's patterns are loaded
\* only when the instance was created with ignore: true
IgnoredPathsContains(filePath, dotfiles, category) ==
    \/ DefaultIgnored(filePath, dotfiles)
    \/ (category # "default" /\ options.ignore /\ CustomIgnored(filePath))

\* an ignore check that filters nothing when the ignore flag is off
IsIgnoredFileOffNothing(filePath, dotfiles, direct) ==
    options.ignore /\ IgnoredPathsContains(filePath, dotfiles, "all")

\* an ignore check that treats a direct file like a discovered one
IsIgnoredFileDirectUnseen(filePath, dotfiles, direct) ==
    IgnoredPathsContains(filePath, dotfiles,
                         IF options.ignore THEN "all" ELSE "default")

\* FileEnumerator#_isIgnoredFile(filePath, { dotfiles, direct })
IsIgnoredFile(filePath, dotfiles, direct) ==
    IF options.ignore
    THEN IgnoredPathsContains(filePath, dotfiles, "all")
    ELSE ~direct /\ IgnoredPathsContains(filePath, dotfiles, "default")

----------------------------------------------------------------------------
\* The file iterator.  A generator is its continuation: the inner iterator of
\* a pattern is an array of entries (kind "array") or the frames of the
\* running _iterateFilesRecursive calls (kind "gen"), innermost last.

IsDirectory(p) == p \in ExistingDirs
IsFile(p) == p \in ExistingFiles

NoOptions == [dotfiles |-> FALSE, recursive |-> FALSE, glob |-> FALSE, selector |-> << >>]
NoInner == [kind |-> "none", items |-> << >>, stack |-> << >>, opt |-> NoOptions]

FileEntry(config, filePath, flag) == [config |-> config, filePath |-> filePath, flag |-> flag]

\* a call of _iterateFilesRecursive that has not run yet
Frame(directoryPath, parentConfig) ==
    [dir |-> directoryPath, parentConfig |-> parentConfig, config |-> 0,
     k |-> 0, entered |-> FALSE]

\* FileEnumerator#_iterateFilesWithFile(filePath)
IterateFilesWithFile(s, filePath) ==
    LET ignored == IsIgnoredFile(filePath, FALSE, TRUE)
        flag == IF ignored THEN IGNORED ELSE NONE
    IN Bind(LoadConfigInAncestors(s, filePath), LAMBDA config :
        IF config.err # "" THEN config
        ELSE Ret(config.s, [NoInner EXCEPT !.kind = "array",
                                !.items = <<FileEntry(config.val, filePath, flag)>>]))

\* FileEnumerator#_iterateFilesWithDirectory(directoryPath, dotfiles)
IterateFilesWithDirectory(s, directoryPath, dotfiles) ==
    LET opt == [dotfiles |-> dotfiles, recursive |-> TRUE, glob |-> FALSE,
                selector |-> << >>]
    IN Bind(LoadConfigInAncestors(s, directoryPath), LAMBDA config :
        IF config.err # "" THEN config
        ELSE Ret(config.s, [NoInner EXCEPT !.kind = "gen", !.opt = opt,
                                !.stack = <<Frame(directoryPath, config.val)>>]))

\* FileEnumerator#_iterateFilesWithGlob(pattern, dotfiles)
IterateFilesWithGlob(s, pattern, dotfiles) ==
    LET directoryPath == GetGlobParent(pattern)
        globPart == GlobPart(pattern)
        opt == [dotfiles |-> dotfiles, recursive |-> RecursiveTest(globPart),
                glob |-> TRUE, selector |-> pattern]
    IN Bind(LoadConfigInAncestors(s, directoryPath), LAMBDA config :
        IF config.err # "" THEN config
        ELSE Ret(config.s, [NoInner EXCEPT !.kind = "gen", !.opt = opt,
                                !.stack = <<Frame(directoryPath, config.val)>>]))

\* a dispatch that looks for the literal path before it looks for a glob
IterateFilesOfPatternPathFirst(s, pattern) ==
    LET absolutePath == Resolve(options.cwd, pattern)
    IN IF IsDirectory(absolutePath)
       THEN IterateFilesWithDirectory(s, absolutePath, DotfilesPatternTest(pattern))
       ELSE IF IsFile(absolutePath)
       THEN IterateFilesWithFile(s, absolutePath)
       ELSE IF options.globInputPaths /\ IsGlobPattern(pattern)
       THEN IterateFilesWithGlob(s, absolutePath, DotfilesPatternTest(pattern))
       ELSE Ret(s, [NoInner EXCEPT !.kind = "array"])

\* FileEnumerator#_iterateFiles(pattern)
IterateFilesOfPattern(s, pattern) ==
    LET absolutePath == Resolve(options.cwd, pattern)
    IN IF options.globInputPaths /\ IsGlobPattern(pattern)
       THEN IterateFilesWithGlob(s, absolutePath, DotfilesPatternTest(pattern))
       ELSE IF IsDirectory(absolutePath)
       THEN IterateFilesWithDirectory(s, absolutePath, DotfilesPatternTest(pattern))
       ELSE IF IsFile(absolutePath)
       THEN IterateFilesWithFile(s, absolutePath)
       ELSE Ret(s, [NoInner EXCEPT !.kind = "array"])

\* a walk that enters every directory
PrunesDirectoryNever(directoryPath, dotfiles) == FALSE

\* if (this._isIgnoredFile(directoryPath, options)) return
PrunesDirectory(directoryPath, dotfiles) == IsIgnoredFile(directoryPath, dotfiles, FALSE)

GenResult(s, g, res, entry, err) ==
    [s |-> s, g |-> g, res |-> res, entry |-> entry, err |-> err]

NoEntry == FileEntry(0, << >>, NONE)

Pop(g) == [g EXCEPT !.stack = SubSeq(@, 1, Len(@) - 1)]

\* a walk that puts a subdirectory off until the files of the directory that
\* holds it were listed
DiveLater(g, filePath, config) ==
    [g EXCEPT !.stack = SubSeq(@, 1, Len(@) - 1) \o <<Frame(filePath, config)>>
                            \o <<@[Len(@)]>>]

\* yield* this._iterateFilesRecursive(filePath, config, options): the walk of
\* the subdirectory runs before the next name of the listing is looked at
Dive(g, filePath, config) ==
    [g EXCEPT !.stack = Append(@, Frame(filePath, config))]

\* FileEnumerator#_iterateFilesRecursive: one next() of the generator, run
\* to its next yield ("entry"), to its end ("exhausted") or to a throw
RECURSIVE IterateFilesRecursiveNext(_, _)
IterateFilesRecursiveRun(s, g) ==
    IF g.stack = << >> THEN GenResult(s, g, "exhausted", NoEntry, "")
    ELSE
    LET n == Len(g.stack)
        f == g.stack[n]
    IN
    IF ~f.entered
    THEN IF PrunesDirectory(f.dir, g.opt.dotfiles)
         THEN IterateFilesRecursiveNext(s, Pop(g))
         ELSE Bind(LoadConfigOnDirectory(s, f.dir, f.parentConfig), LAMBDA config :
                IF config.err # ""
                THEN GenResult(config.s, NoInner, "throw", NoEntry, config.err)
                ELSE IterateFilesRecursiveNext(config.s,
                        [g EXCEPT !.stack[n] = [f EXCEPT !.entered = TRUE,
                                                         !.config = config.val,
                                                         !.k = 1]]))
    ELSE IF f.k > Len(Listing(f.dir))
    THEN IterateFilesRecursiveNext(s, Pop(g))
    ELSE
    LET filePath == Append(f.dir, Listing(f.dir)[f.k])
        advanced == [g EXCEPT !.stack[n].k = f.k + 1]
    IN
    IF IsFile(filePath)
    THEN LET ignored == IsIgnoredFile(filePath, g.opt.dotfiles, FALSE)
             flag == IF ignored THEN IGNORED_SILENTLY ELSE NONE
             matched == IF g.opt.glob
                        THEN MinimatchMatch(g.opt.selector, filePath)
                        ELSE ExtRegExpTest(filePath)
         IN IF matched
            THEN GenResult(s, advanced, "entry", FileEntry(f.config, filePath, flag), "")
            ELSE IterateFilesRecursiveNext(s, advanced)
    ELSE IF g.opt.recursive /\ IsDirectory(filePath)
    THEN IterateFilesRecursiveNext(s, Dive(advanced, filePath, f.config))
    ELSE IterateFilesRecursiveNext(s, advanced)

IterateFilesRecursiveNext(s, g) == Call(IterateFilesRecursiveRun, s, g)

\* next() of the iterator that _iterateFiles returned
\* the walk drained from `g`, as Array.from collects it
RECURSIVE CollectWalk(_, _, _)
CollectWalk(s, g, acc) ==
    Bind(IterateFilesRecursiveNext(s, g), LAMBDA r :
        IF r.res = "entry" THEN CollectWalk(r.s, r.g, Append(acc, r.entry))
        ELSE [s |-> r.s, items |-> acc, err |-> r.err])

\* an inner iteration that collects the whole walk before it hands on the
\* first entry
InnerNextCollected(s, g) ==
    IF g.kind = "array"
    THEN IF g.items = << >> THEN GenResult(s, g, "exhausted", NoEntry, "")
         ELSE GenResult(s, [g EXCEPT !.items = Tail(@)], "entry", Head(g.items), "")
    ELSE Bind(CollectWalk(s, g, << >>), LAMBDA c :
            IF c.err # "" THEN GenResult(c.s, NoInner, "throw", NoEntry, c.err)
            ELSE IF c.items = << >> THEN GenResult(c.s, NoInner, "exhausted", NoEntry, "")
            ELSE GenResult(c.s, [NoInner EXCEPT !.kind = "array", !.items = Tail(c.items)],
                           "entry", Head(c.items), ""))

InnerNext(s, g) ==
    IF g.kind = "array"
    THEN IF g.items = << >> THEN GenResult(s, g, "exhausted", NoEntry, "")
         ELSE GenResult(s, [g EXCEPT !.items = Tail(@)], "entry", Head(g.items), "")
    ELSE IterateFilesRecursiveNext(s, g)

\* the iterateFiles generator: its patterns, the index of the pattern being
\* expanded, the set of yielded paths and the two flags of that pattern
NewIterator(patterns) ==
    [status |-> "suspended", patterns |-> patterns, i |-> 1, set |-> {},
     foundRegardlessOfIgnored |-> FALSE, found |-> FALSE, inner |-> NoInner]

NoIterator == [NewIterator(<< >>) EXCEPT !.status = "none"]

Finished(it) == [it EXCEPT !.status = "done", !.inner = NoInner]

PullResult(s, it, res, value, err, data) ==
    [s |-> s, it |-> it, res |-> res, value |-> value, err |-> err, data |-> data]

NoValue == [config |-> 0, filePath |-> << >>, ignored |-> FALSE]

\* isGlob(pattern); path.sep is "/", so it is isGlobPattern(pattern)
IsGlob(pattern) == IsGlobPattern(pattern)

\* a flag that tells only that globbing is disabled
GlobDisabledByOptionOnly(pattern) == ~options.globInputPaths

\* !globInputPaths && isGlob(pattern)
GlobDisabled(pattern) == ~options.globInputPaths /\ IsGlob(pattern)

\* the messageData of the error raised when a pattern is drained
MessageData(error, pattern) ==
    IF error = "NoFilesFound"
    THEN [pattern |-> pattern, globDisabled |-> GlobDisabled(pattern)]
    ELSE [pattern |-> pattern]

\* a check that knows ignored files only
DrainedErrorIgnoredOnly(foundRegardlessOfIgnored, found) ==
    IF ~found THEN "AllFilesIgnored" ELSE ""

\* the check made when a pattern is drained: the error to raise, if any
DrainedError(foundRegardlessOfIgnored, found) ==
    IF ~foundRegardlessOfIgnored THEN "NoFilesFound"
    ELSE IF ~found THEN "AllFilesIgnored"
    ELSE ""

\* every entry counts as found, whatever its flag
CountsAsFoundAlways(flag) == TRUE

\* whether an entry of a pattern counts as found
CountsAsFound(flag) == flag # IGNORED_SILENTLY

\* every path is yielded, also when it was yielded before
IsNewPathAlways(set, filePath) == TRUE

\* no pattern is skipped
IsSkippedNever(pattern) == FALSE

\* whether a pattern is skipped: the empty string is
IsSkipped(pattern) == pattern = EmptyPattern

\* whether a path is yielded: not when it was yielded before
IsNewPath(set, filePath) == filePath \notin set

\* FileEnumerator#iterateFiles: one next() of the generator, run to its next
\* yield ("yield"), to its end ("done") or to a throw ("throw")
RECURSIVE IterateFilesNext(_, _)
IterateFilesRun(s, it) ==
    IF it.inner.kind = "none"
    THEN IF it.i > Len(it.patterns)
         THEN PullResult(s, Finished(it), "done", NoValue, "", << >>)
         ELSE LET pattern == it.patterns[it.i]
              IN IF IsSkipped(pattern)
                 THEN IterateFilesNext(s, [it EXCEPT !.i = @ + 1])
                 ELSE Bind(IterateFilesOfPattern(s, pattern), LAMBDA r :
                        IF r.err # ""
                        THEN PullResult(r.s, Finished(it), "throw", NoValue, r.err, << >>)
                        ELSE IterateFilesNext(r.s,
                                [it EXCEPT !.inner = r.val,
                                           !.foundRegardlessOfIgnored = FALSE,
                                           !.found = FALSE]))
    ELSE
    Bind(InnerNext(s, it.inner), LAMBDA nx :
    IF nx.res = "throw"
    THEN PullResult(nx.s, Finished(it), "throw", NoValue, nx.err, << >>)
    ELSE IF nx.res = "exhausted"
    THEN LET e == DrainedError(it.foundRegardlessOfIgnored, it.found)
         IN IF e # ""
            THEN PullResult(nx.s, Finished(it), "throw", NoValue, e,
                            MessageData(e, it.patterns[it.i]))
            ELSE IterateFilesNext(nx.s, [it EXCEPT !.i = @ + 1, !.inner = NoInner])
    ELSE
    LET it1 == [it EXCEPT !.inner = nx.g, !.foundRegardlessOfIgnored = TRUE]
        it2 == [it1 EXCEPT !.found = TRUE]
        it3 == [it2 EXCEPT !.set = @ \cup {nx.entry.filePath}]
        filePath == nx.entry.filePath
    IN
    IF ~CountsAsFound(nx.entry.flag) THEN IterateFilesNext(nx.s, it1)
    ELSE IF ~IsNewPath(it.set, filePath) THEN IterateFilesNext(nx.s, it2)
    ELSE
    Bind(FinalizeConfigArray(nx.s, nx.entry.config, Dirname(filePath)), LAMBDA fz :
        IF fz.err # ""
        THEN PullResult(fz.s, Finished(it3), "throw", NoValue, fz.err, fz.data)
        ELSE PullResult(fz.s, it3, "yield",
                [config |-> fz.val, filePath |-> filePath,
                 ignored |-> (nx.entry.flag = IGNORED)], "", << >>)))

IterateFilesNext(s, it) == Call(IterateFilesRun, s, it)

\* Array.from(iterateFiles(patterns)): the generator drained from `it`
RECURSIVE Drain(_, _, _)
Drain(s, it, acc) ==
    Bind(IterateFilesNext(s, it), LAMBDA r :
        IF r.res = "yield" THEN Drain(r.s, r.it, Append(acc, r.value))
        ELSE [s |-> r.s, entries |-> acc, err |-> r.err, at |-> r.it.i])

----------------------------------------------------------------------------
\* The runs of the model: the enumerators that are constructed, and the
\* arguments of the calls made on them.

GlobRecursiveA == Abs(<<"a", "**", "*.js">>)
GlobInB == Abs(<<"a", "b", "*.js">>)
FileOneInB == Abs(<<"a", "b", "one.js">>)
MissingFile == Abs(<<"a", "b", "bar.js">>)
GlobDotfilesInB == Abs(<<"a", "b", ".*.js">>)
FileDotInA == Abs(<<"a", ".foo.js">>)
GlobDotfilesInA == Abs(<<"a", ".*.js">>)
GlobInCurrentDirectory == Rel(<<".", "*.js">>)

Patterns ==
    {EmptyPattern, GlobRecursiveA, GlobInB, Abs(DirB), FileOneInB, Abs(DirC), MissingFile,
     GlobDotfilesInB, FileDotInA, GlobDotfilesInA, GlobInCurrentDirectory}

RECURSIVE SeqsUpTo(_, _)
SeqsUpTo(S, n) ==
    IF n = 0 THEN {<< >>}
    ELSE LET shorter == SeqsUpTo(S, n - 1)
         IN shorter \cup {Append(q, x) : q \in shorter, x \in S}

\* the pattern lists of the runs that vary the patterns
PatternLists == SeqsUpTo(Patterns, MaxPatterns) \ {<< >>}

\* the pattern lists of the runs that vary the configuration
FewPatternLists == {<<GlobRecursiveA>>, <<FileOneInB, GlobInB>>}

FilePaths ==
    {Abs(<<"one.js">>), Abs(<<"a", "b", "one.js">>), Abs(DirB), Rel(<<"a.js">>)}

FewFilePaths == {Rel(<<"a.js">>)}

\* a file system layout: the config file of each directory, the home
\* directory and the working directory
Layout(root, a, b, c, home, cwd) ==
    [files |-> [d \in AllDirs |->
                    CASE d = RootDir -> root [] d = DirA -> a [] d = DirB -> b
                      [] d = DirC -> c [] OTHER -> "none"],
     homedir |-> home, cwd |-> cwd]

CascadeLayouts ==
    {Layout(r, a, b, "none", DirX, DirA) : r \in {"none", "plain", "root"},
                                            a \in {"none", "plain", "root"},
                                            b \in {"none", "plain", "root"}}

SpecialLayouts ==
    { Layout("none", "none", "none", "plain", DirC, DirA),    \* personal config
      Layout("none", "none", "root", "plain", DirC, DirA),
      Layout("plain", "root", "eacces", "none", RootDir, DirA),
      Layout("plain", "plain", "none", "none", DirA, DirA),   \* cwd is home
      Layout("plain", "plain", "plain", "none", DirA, RootDir),
      Layout("plain", "error", "plain", "none", DirX, DirA),
      Layout("none", "invalid", "none", "none", DirX, DirA) }

\* layouts with an unreadable directory in the middle and at the top
AccessLayouts ==
    { Layout("plain", "eacces", "plain", "none", DirX, DirA),
      Layout("eacces", "none", "plain", "none", DirX, DirA),
      Layout("error", "none", "plain", "none", DirX, DirA) }

ConfigOptions ==
    {o \in [useEslintrc : BOOLEAN,
            baseConfig : {"null", "obj"},
            rulePaths : BOOLEAN,
            cliConfig : {"null", "obj"},
            specificConfigPath : BOOLEAN,
            globInputPaths : {TRUE},
            ignore : {TRUE},
            ignorePattern : {{}}] :
        /\ o.rulePaths => o.baseConfig = "null"
        /\ o.specificConfigPath => o.cliConfig = "null"}

\* the option sets with inline CLI options, with and without a --config file
InlineCLIOptions ==
    [useEslintrc : BOOLEAN,
     baseConfig : {"null", "obj"},
     rulePaths : {FALSE},
     cliConfig : {"obj"},
     specificConfigPath : BOOLEAN,
     globInputPaths : {TRUE},
     ignore : {TRUE},
     ignorePattern : {{}}]

IgnoreOptions ==
    {o \in [useEslintrc : BOOLEAN,
            baseConfig : {"null"},
            rulePaths : {FALSE},
            cliConfig : {"obj"},
            specificConfigPath : {FALSE},
            globInputPaths : {TRUE},
            ignore : BOOLEAN,
            ignorePattern : {{}, {DirB}, {<<"a", "b", "one.js">>}}] :
        o.useEslintrc \/ (o.ignore /\ o.ignorePattern = {})}

\* the option sets with globbing enabled and disabled
GlobOptions ==
    [useEslintrc : {TRUE},
     baseConfig : {"null"},
     rulePaths : {FALSE},
     cliConfig : {"obj"},
     specificConfigPath : {FALSE},
     globInputPaths : BOOLEAN,
     ignore : {TRUE},
     ignorePattern : {{}}]

GlobNamedFile == Abs(<<"g", "*.js">>)
GlobNamedDirectory == Abs(<<"g", "**">>)
GlobRecursiveG == Abs(<<"g", "**", "*.js">>)
GlobAllUnderRoot == Abs(<<"**">>)

\* the patterns of the runs that vary globInputPaths
GlobPatterns ==
    {GlobNamedFile, GlobNamedDirectory, GlobRecursiveG, Abs(DirG), Abs(<<"g", "one.js">>),
     GlobInB, MissingFile, Abs(DirEmpty), GlobAllUnderRoot}

IgnoreLayouts ==
    { Layout("plain", "none", "plain", "none", DirX, DirA),
      Layout("plain", "none", "none", "none", DirX, DirA) }

----------------------------------------------------------------------------
\* ExtractedConfig (lib/lookup/extracted-config.js).  A JavaScript value is
\* [t, v]: null, undefined, a string v, or a ConfigDependency whose filePath is
\* v ("" when the dependency has none).  An object with ordered keys is the
\* sequence of its [key, value] properties in insertion order.

Null == [t |-> "null", v |-> ""]
Undefined == [t |-> "undefined", v |-> ""]
Str(v) == [t |-> "str", v |-> v]
ConfigDependency(filePath) == [t |-> "dep", v |-> filePath]

\* dep.filePath
FilePathOf(dep) == IF dep.v = "" THEN Undefined ELSE Str(dep.v)

\* a && b, for the values of the model: null and undefined are falsy
AndThen(a, b) == IF a.t \in {"null", "undefined"} \/ a = Str("") THEN a ELSE b

\* keys that are canonical array indices, and their numeric values
IsArrayIndex(key) == key \in {"1", "2"}
IndexValue(key) == IF key = "1" THEN 1 ELSE 2

\* the sequence of the elements of a set of array-index keys, ascending
RECURSIVE Ascending(_)
Ascending(keys) ==
    IF keys = {} THEN << >>
    ELSE LET least == CHOOSE k \in keys :
                        \A other \in keys : IndexValue(k) <= IndexValue(other)
         IN <<least>> \o Ascending(keys \ {least})

\* Object.keys(obj): array-index keys in ascending numeric order, then the
\* string keys in insertion order
ObjectKeys(obj) ==
    LET keys == [i \in 1..Len(obj) |-> obj[i].key]
    IN Ascending({keys[i] : i \in {j \in 1..Len(obj) : IsArrayIndex(keys[j])}})
        \o SelectSeq(keys, LAMBDA k : ~IsArrayIndex(k))

\* Array.prototype.reverse()
Reverse(seq) == [i \in 1..Len(seq) |-> seq[Len(seq) + 1 - i]]

\* ExtractedConfig#toCompatibleObjectAsConfigFileContent(): [this, result],
\* the receiver after the call and the object returned
ToCompatibleObjectAsConfigFileContent(this) ==
    LET config == [f \in DOMAIN this \ {"processor"} |-> this[f]]
        withParser == [config EXCEPT !.parser =
                            AndThen(config.parser, FilePathOf(config.parser))]
    IN [this |-> this,
        result |-> [f \in DOMAIN withParser |->
                        IF f = "plugins" THEN Reverse(ObjectKeys(config.plugins))
                        ELSE withParser[f]]]

\* the plugin ids of the runs; "1" and "2" are the names of eslint-plugin-1
\* and eslint-plugin-2
PluginIds == {"a", "b", "1", "2"}

\* the plugin maps: up to MaxPlugins plugins, inserted in any order
PluginMaps ==
    {[i \in 1..Len(ids) |-> [key |-> ids[i], value |-> ConfigDependency(ids[i])]] :
        ids \in {q \in SeqsUpTo(PluginIds, MaxPlugins) :
                    \A i, j \in 1..Len(q) : q[i] = q[j] => i = j}}

\* new ExtractedConfig(), with its fields filled in
ExtractedConfigs ==
    [env : {"{}"}, globals : {"{}"},
     parser : {Null, ConfigDependency("parser.js"), ConfigDependency("")},
     parserOptions : {"{}"},
     plugins : PluginMaps,
     processor : {Null, Str("a/.md")},
     rules : {"{}", "{semi}"},
     settings : {"{}"}]

\* no conversion was made
NoResult == [converted |-> FALSE]
NoExtracted == [original |-> NoResult, this |-> NoResult, result |-> NoResult]

EmptyState ==
    [heap |-> << >>, loads |-> << >>, pool |-> FALSE,
     slots |-> [baseConfigArray |-> 0, cliConfigArray |-> 0,
                configCache |-> [d \in AllDirs |-> 0],
                finalizeCache |-> << >>]]

\* the constructor of FileEnumerator
Constructor(s) ==
    Bind(CreateBaseConfigArray(s), LAMBDA b :
    Bind(CreateCLIConfigArray(b.s), LAMBDA c :
        [c.s EXCEPT !.slots.baseConfigArray = b.val,
                    !.slots.cliConfigArray = c.val]))

\* the program state of the current state of the model
Now == [heap |-> heap, slots |-> slots, loads |-> << >>, pool |-> pool]

\* got: what getConfigArrayForFile returned since the last clearCache();
\* before: what it returned before the last clearCache(); entries, outcome,
\* at: what the current generator yielded, how it ended and at which pattern;
\* interleaved: another call was made while it was suspended; snap: the
\* program state when it was created; built: the pool held the plugin when
\* the base and CLI arrays in use were built
NoHistory ==
    [got |-> {}, before |-> {}, entries |-> << >>, outcome |-> "none",
     at |-> 0, interleaved |-> FALSE, snap |-> EmptyState, built |-> FALSE]

\* whether finalizeCache has an entry for array `id` in state s
WasFinalized(s, id) ==
    id \in 1..Len(s.slots.finalizeCache) /\ s.slots.finalizeCache[id] # 0

\* raw: the array the ancestor resolver returned, before finalization; loads:
\* the loadOnDirectory calls of the call; cached: finalizeCache had an entry
\* for raw when the call was made; again: a call made since the last
\* clearCache() has returned an array for the same directory
Observed(op, arg, raw, val, err, data) ==
    [op |-> op, arg |-> arg, raw |-> raw, val |-> val, err |-> err, data |-> data,
     loads |-> << >>, cached |-> FALSE, again |-> FALSE]

\* new FileEnumerator(options), on a given file system
SetupEnumerator(o, l) ==
    /\ options = [o EXCEPT !.cwd = l.cwd]
    /\ files = l.files
    /\ homedir = l.homedir
    /\ pool = FALSE
    /\ \E s \in {Constructor(EmptyState)} : heap = s.heap /\ slots = s.slots
    /\ iter = NoIterator
    /\ last = Observed("new", EmptyPattern, 0, 0, "", << >>)
    /\ hist = NoHistory
    /\ calls = [total |-> 0, iterations |-> 0]

\* the runs of the enumerator convert no extracted config
Setup(o, l) == SetupEnumerator(o, l) /\ extracted = NoExtracted

WithCwd(o) ==
    [cwd |-> RootDir, useEslintrc |-> o.useEslintrc, baseConfig |-> o.baseConfig,
     rulePaths |-> o.rulePaths, cliConfig |-> o.cliConfig,
     specificConfigPath |-> o.specificConfigPath,
     globInputPaths |-> o.globInputPaths, ignore |-> o.ignore,
     ignorePattern |-> o.ignorePattern]

\* every option set on the key layouts, and every layout under the key option
\* sets
KeyLayouts ==
    { Layout("plain", "none", "plain", "none", DirX, DirA),
      Layout("plain", "root", "plain", "none", DirX, DirA),
      Layout("none", "none", "none", "none", DirX, DirA),
      Layout("none", "none", "none", "plain", DirC, DirA) }

KeyOptions ==
    {o \in ConfigOptions :
        /\ o.useEslintrc /\ ~o.rulePaths /\ ~o.specificConfigPath
        /\ o.baseConfig # o.cliConfig}

Init ==
    \E o \in ConfigOptions, l \in CascadeLayouts \cup SpecialLayouts :
        /\ l \in KeyLayouts \/ o \in KeyOptions
        /\ Setup(WithCwd(o), l)

InitFiles ==
    \E o \in IgnoreOptions, l \in IgnoreLayouts : Setup(WithCwd(o), l)

Interleave(h) ==
    [h EXCEPT !.interleaved = @ \/ (iter.status = "suspended")]

\* a call of getConfigArrayForFile(filePath)
GetConfigArrayForFileCall(filePath) ==
    /\ calls.total < MaxCalls
    /\ LET absolutePath == Resolve(options.cwd, OrDefault(filePath))
       IN \E r \in {GetConfigArrayForFile(Now, filePath)},
             raw \in {LoadConfigInAncestors(Now, absolutePath).val} :
          /\ heap' = r.s.heap
          /\ slots' = r.s.slots
          /\ last' = [Observed("get", filePath, raw, r.val, r.err, r.data) EXCEPT
                            !.loads = r.s.loads,
                            !.cached = WasFinalized(Now, raw),
                            !.again = \E g \in hist.got :
                                            g.dir = Dirname(absolutePath)]
          /\ hist' = IF r.err = ""
                     THEN [Interleave(hist) EXCEPT !.got = @ \cup
                            {[dir |-> Dirname(absolutePath), path |-> absolutePath,
                              val |-> r.val, built |-> hist.built]}]
                     ELSE Interleave(hist)
    /\ calls' = [calls EXCEPT !.total = @ + 1]
    /\ UNCHANGED <<options, files, homedir, pool, iter, extracted>>

\* a call of clearCache()
ClearCacheCall ==
    /\ calls.total < MaxCalls
    /\ \E s \in {ClearCacheOp(Now)} : heap' = s.heap /\ slots' = s.slots
    /\ last' = Observed("clear", EmptyPattern, 0, 0, "", << >>)
    /\ hist' = [Interleave(hist) EXCEPT
                    !.before = @ \cup hist.got,
                    !.got = {},
                    !.built = pool]
    /\ calls' = [calls EXCEPT !.total = @ + 1]
    /\ UNCHANGED <<options, files, homedir, pool, iter, extracted>>

\* a call of iterateFiles(patterns): the generator is created, nothing runs
IterateFilesCall(patterns) ==
    /\ calls.total < MaxCalls
    /\ calls.iterations < MaxIterations
    /\ iter' = NewIterator(patterns)
    /\ last' = Observed("iterate", EmptyPattern, 0, 0, "", << >>)
    /\ hist' = [hist EXCEPT !.entries = << >>, !.outcome = "running", !.at = 0,
                            !.interleaved = FALSE, !.snap = Now]
    /\ calls' = [total |-> calls.total + 1, iterations |-> calls.iterations + 1]
    /\ UNCHANGED <<options, files, homedir, pool, heap, slots, extracted>>

\* the consumer pulls the next entry of the generator
NextEntry ==
    /\ iter.status = "suspended"
    /\ \E r \in {IterateFilesNext(Now, iter)} :
          /\ heap' = r.s.heap
          /\ slots' = r.s.slots
          /\ iter' = r.it
          /\ last' = [Observed("next", Abs(r.value.filePath), 0, r.value.config,
                                r.err, r.data) EXCEPT !.loads = r.s.loads]
          /\ hist' = [hist EXCEPT
                        !.entries = IF r.res = "yield" THEN Append(@, r.value) ELSE @,
                        !.outcome = CASE r.res = "yield" -> "running"
                                      [] r.res = "done" -> "done"
                                      [] OTHER -> r.err,
                        !.at = r.it.i]
    /\ UNCHANGED <<options, files, homedir, pool, calls, extracted>>

\* the test adds the plugin to the pool the factory was created with
AddPluginToPool ==
    /\ calls.total < MaxCalls
    /\ ~pool
    /\ pool' = TRUE
    /\ UNCHANGED <<options, files, homedir, heap, slots, iter, last, hist, calls,
                   extracted>>

Next ==
    \/ \E filePath \in FilePaths : GetConfigArrayForFileCall(filePath)
    \/ ClearCacheCall
    \/ AddPluginToPool
    \/ \E patterns \in FewPatternLists : IterateFilesCall(patterns)
    \/ NextEntry

NextFiles ==
    \/ \E filePath \in FewFilePaths : GetConfigArrayForFileCall(filePath)
    \/ ClearCacheCall
    \/ \E patterns \in PatternLists : IterateFilesCall(patterns)
    \/ NextEntry

\* a call of toCompatibleObjectAsConfigFileContent() on the extracted config
ToCompatibleObjectCall ==
    /\ extracted.result = NoResult
    /\ \E r \in {ToCompatibleObjectAsConfigFileContent(extracted.this)} :
            extracted' = [extracted EXCEPT !.this = r.this, !.result = r.result]
    /\ UNCHANGED <<options, files, homedir, pool, heap, slots, iter, last, hist, calls>>

InitExtracted ==
    \E config \in ExtractedConfigs :
        /\ \E o \in KeyOptions, l \in KeyLayouts : SetupEnumerator(WithCwd(o), l)
        /\ extracted = [original |-> config, this |-> config, result |-> NoResult]

NextExtracted == ToCompatibleObjectCall

\* the runs that call getConfigArrayForFile with and without an argument
InitDefault ==
    \E o \in KeyOptions \cup InlineCLIOptions, l \in CascadeLayouts \cup SpecialLayouts \cup AccessLayouts :
        Setup(WithCwd(o), l)

NextDefault ==
    \/ \E filePath \in {NoArgument, Rel(<<"one.js">>), Abs(<<"one.js">>),
                         Abs(<<"a", "b", "one.js">>)} : GetConfigArrayForFileCall(filePath)
    \/ ClearCacheCall

SpecDefault == InitDefault /\ [][NextDefault]_vars

\* the runs that vary globInputPaths
InitGlob ==
    \E o \in GlobOptions, l \in IgnoreLayouts : Setup(WithCwd(o), l)

NextGlob ==
    \/ \E filePath \in FewFilePaths : GetConfigArrayForFileCall(filePath)
    \/ ClearCacheCall
    \/ \E patterns \in SeqsUpTo(GlobPatterns, MaxPatterns) \ {<< >>} :
            IterateFilesCall(patterns)
    \/ NextEntry

SpecGlob == InitGlob /\ [][NextGlob]_vars

\* the runs that vary the configuration
Spec == Init /\ [][Next]_vars

\* the runs that convert an extracted config
SpecExtracted == InitExtracted /\ [][NextExtracted]_vars

\* the runs that vary the patterns and the ignore options
SpecFiles == InitFiles /\ [][NextFiles]_vars

----------------------------------------------------------------------------
\* Properties of the configuration lookup, checked under Spec.

IsPrefix(a, b) == Len(a) <= Len(b) /\ SubSeq(b, 1, Len(a)) = a

\* p is d or lies below d
IsUnder(d, p) == Len(d) <= Len(p) /\ SubSeq(p, 1, Len(d)) = d

\* the config files of the proper ancestors of directory d
AncestorConfigFiles(d) == {Append(SubSeq(d, 1, k), ".eslintrc") : k \in 0..(Len(d) - 1)}

FilePathsOf(id) == {heap[id][i].filePath : i \in 1..Len(heap[id])}

LastPath == Resolve(options.cwd, last.arg)

\* C1: between two clearCache() calls, getConfigArrayForFile returns one and
\* the same array instance for all paths that have the same dirname, whether
\* or not the files exist and whatever calls are made in between.
C1_SameDirnameSameArray ==
    \A g1, g2 \in hist.got : g1.dir = g2.dir => g1.val = g2.val

\* two different paths of a directory that has its own config file were
\* resolved, and files were iterated in the same run
C1_Witness ==
    \E g1, g2 \in hist.got :
        /\ g1.dir = g2.dir /\ g1.path # g2.path
        /\ files[g1.dir] = "plain"
        /\ hist.entries # << >>

\* C2: within one iterateFiles call, two yielded entries whose files lie in
\* the same directory carry the same config array instance, for every list
\* of patterns.
C2_SameDirectorySameConfig ==
    ~hist.interleaved =>
        \A i, j \in 1..Len(hist.entries) :
            Dirname(hist.entries[i].filePath) = Dirname(hist.entries[j].filePath)
                => hist.entries[i].config = hist.entries[j].config

\* C3 as stated: for a directory d whose config has root: true, the array
\* getConfigArrayForFile returns for a file in d or below d has no element
\* of a config file of a proper ancestor of d.
C3_NoAncestorElementReturned ==
    (last.op = "get" /\ last.err = "") =>
        \A d \in ExistingDirs :
            (files[d] = "root" /\ IsUnder(d, Dirname(LastPath)))
                => FilePathsOf(last.val) \cap AncestorConfigFiles(d) = {}

\* C3 (amended): for a directory d whose config has root: true, the array
\* the ancestor resolver returns (before finalization) for a file in d or
\* below d has no element of a config file of a proper ancestor of d.
C3_NoAncestorElementResolved ==
    (last.op = "get" /\ last.raw # 0) =>
        \A d \in ExistingDirs :
            (files[d] = "root" /\ IsUnder(d, Dirname(LastPath)))
                => FilePathsOf(last.raw) \cap AncestorConfigFiles(d) = {}

\* a file below a root: true directory was resolved, the array holds the
\* element of that directory, and a directory above it has a config file
C3_Witness ==
    /\ last.op = "get" /\ last.raw # 0
    /\ \E d \in ExistingDirs :
        /\ files[d] = "root"
        /\ IsUnder(d, Dirname(LastPath)) /\ d # Dirname(LastPath)
        /\ Append(d, ".eslintrc") \in FilePathsOf(last.raw)
        /\ \E k \in 0..(Len(d) - 1) : files[SubSeq(d, 1, k)] = "plain"

\* C4: every array getConfigArrayForFile returns, and the config of every
\* iterateFiles entry, starts with the elements of the current base array.
C4_BaseArrayFirst ==
    /\ (last.op = "get" /\ last.err = "")
            => IsPrefix(heap[slots.baseConfigArray], heap[last.val])
    /\ ~hist.interleaved =>
            \A i \in 1..Len(hist.entries) :
                IsPrefix(heap[slots.baseConfigArray], heap[hist.entries[i].config])

\* C9: an array getConfigArrayForFile returns after a clearCache() call is
\* none of the arrays it returned before that call.
C9_FreshArrayAfterClearCache ==
    \A g \in hist.got : \A b \in hist.before : g.val # b.val

\* the same path was resolved before and after a clearCache(), with
\* useEslintrc false and no CLI config
C9_Witness ==
    /\ ~options.useEslintrc /\ options.cliConfig = "null"
    /\ \E g \in hist.got : \E b \in hist.before : g.path = b.path

\* the finalized array of the last getConfigArrayForFile call, 0 if none
FinalOfLast == IF last.raw = 0 THEN 0 ELSE slots.finalizeCache[last.raw]

\* C10: getConfigArrayForFile fails with ConfigurationNotFound exactly when
\* useEslintrc is true and the finalized array is empty, which requires that
\* there is no base config data, no rule directory, no CLI config, no --config
\* file and no personal config; with useEslintrc false, or a baseConfig, or
\* CLI rules it never fails so.
C10_ConfigurationNotFound ==
    last.op = "get" =>
        /\ (last.err = "ConfigurationNotFound")
            <=> (options.useEslintrc /\ FinalOfLast # 0 /\ heap[FinalOfLast] = << >>)
        /\ (last.err = "ConfigurationNotFound") =>
            /\ options.baseConfig = "null" /\ ~options.rulePaths
            /\ options.cliConfig = "null" /\ ~options.specificConfigPath
            /\ files[homedir] = "none"
            /\ files[Dirname(LastPath)] \in {"none", "eacces"}
        /\ (~options.useEslintrc \/ options.baseConfig # "null"
                \/ options.cliConfig # "null")
            => last.err # "ConfigurationNotFound"

\* getConfigArrayForFile failed with ConfigurationNotFound
C10_Witness == last.op = "get" /\ last.err = "ConfigurationNotFound"

----------------------------------------------------------------------------
\* Properties of the file iterator, checked under SpecFiles.

\* the directories from `top` down to `dir`, both included
DirsBetween(top, dir) == {SubSeq(dir, 1, k) : k \in Len(top)..Len(dir)}

\* the entries a walk from `top` produces, stated from the file system
WalkEntries(top, recursive, dotfiles, Matched(_)) ==
    {[filePath |-> f,
      flag |-> IF IsIgnoredFile(f, dotfiles, FALSE) THEN IGNORED_SILENTLY ELSE NONE] :
        f \in {g \in ExistingFiles :
                /\ top \in ExistingDirs
                /\ IsUnder(top, Dirname(g))
                /\ recursive \/ Dirname(g) = top
                /\ \A d \in DirsBetween(top, Dirname(g)) :
                        ~IsIgnoredFile(d, dotfiles, FALSE)
                /\ Matched(g)}}

\* the entries the expansion of a pattern produces, stated from the file
\* system and the ignore predicate
Expansion(pattern) ==
    LET absolutePath == Resolve(options.cwd, pattern)
        dotfiles == DotfilesPatternTest(pattern)
        BySelector(f) == MinimatchMatch(absolutePath, f)
        ByExtension(f) == ExtRegExpTest(f)
    IN IF options.globInputPaths /\ IsGlobPattern(pattern)
       THEN WalkEntries(GetGlobParent(absolutePath),
                        RecursiveTest(GlobPart(absolutePath)), dotfiles, BySelector)
       ELSE IF absolutePath \in ExistingDirs
       THEN WalkEntries(absolutePath, TRUE, dotfiles, ByExtension)
       ELSE IF absolutePath \in ExistingFiles
       THEN {[filePath |-> absolutePath,
              flag |-> IF IsIgnoredFile(absolutePath, FALSE, TRUE)
                       THEN IGNORED ELSE NONE]}
       ELSE {}

Ended == hist.outcome \in {"done", "NoFilesFound", "AllFilesIgnored"}

\* the patterns whose expansion was drained without an error
Passed == {k \in 1..Len(iter.patterns) : k < hist.at /\ ~IsSkipped(iter.patterns[k])}

\* C5: NoFilesFound is raised for a non-empty pattern exactly when its
\* expansion produced no entry of any flag; every pattern before it produced
\* an entry, and what was yielded comes from the patterns before it: no later
\* pattern is processed.
C5_NoFilesFound ==
    /\ \A k \in Passed : Expansion(iter.patterns[k]) # {}
    /\ hist.outcome = "NoFilesFound" =>
        /\ iter.status = "done"
        /\ hist.at \in 1..Len(iter.patterns)
        /\ ~IsSkipped(iter.patterns[hist.at])
        /\ Expansion(iter.patterns[hist.at]) = {}
        /\ \A i \in 1..Len(hist.entries) : \E k \in Passed :
                \E e \in Expansion(iter.patterns[k]) :
                    e.filePath = hist.entries[i].filePath
    /\ hist.outcome = "AllFilesIgnored" => Expansion(iter.patterns[hist.at]) # {}

\* the second pattern of a list found no files after the first one yielded
C5_Witness ==
    hist.outcome = "NoFilesFound" /\ hist.at = 2 /\ hist.entries # << >>

\* C6: AllFilesIgnored is raised for a pattern exactly when its expansion
\* produced an entry and every entry is IGNORED_SILENTLY; a pattern with an
\* entry flagged NONE or IGNORED raises nothing, also when all its entries
\* were yielded before.
C6_AllFilesIgnored ==
    /\ \A k \in Passed :
            \E e \in Expansion(iter.patterns[k]) : e.flag # IGNORED_SILENTLY
    /\ hist.outcome = "AllFilesIgnored" =>
        /\ iter.status = "done"
        /\ hist.at \in 1..Len(iter.patterns)
        /\ Expansion(iter.patterns[hist.at]) # {}
        /\ \A e \in Expansion(iter.patterns[hist.at]) : e.flag = IGNORED_SILENTLY
    /\ hist.outcome = "NoFilesFound" => Expansion(iter.patterns[hist.at]) = {}

\* the second pattern of a list had silently ignored files only, after the
\* first one yielded
C6_Witness ==
    hist.outcome = "AllFilesIgnored" /\ hist.at = 2 /\ hist.entries # << >>

\* what a caller sees of an entry: its path, its flag, the elements of its config
EntryView(h, e) ==
    [filePath |-> e.filePath, ignored |-> e.ignored, config |-> h[e.config]]

\* what a caller sees of a drained iteration: the entries, the error and the
\* pattern the error names
ResultView(h, entries, err, patterns, at) ==
    [entries |-> [i \in 1..Len(entries) |-> EntryView(h, entries[i])],
     err |-> err,
     pattern |-> IF err = "" THEN EmptyPattern ELSE patterns[at]]

\* the view of the iteration that has ended
EndedView ==
    ResultView(heap, hist.entries,
               IF hist.outcome = "done" THEN "" ELSE hist.outcome,
               iter.patterns, hist.at)

\* the view of iterateFiles(patterns) drained on the enumerator as it was
\* when the iteration that has ended was started
DrainView(patterns) ==
    Bind(Drain(hist.snap, NewIterator(patterns), << >>), LAMBDA d :
        ResultView(d.s.heap, d.entries, d.err, patterns, d.at))

\* C7: no path is yielded twice in one iterateFiles call, and a list that
\* repeats one pattern gives the entries and the error of the pattern alone.
C7_NoDuplicatePaths ==
    /\ \A i, j \in 1..Len(hist.entries) :
            hist.entries[i].filePath = hist.entries[j].filePath => i = j
    /\ (/\ Ended /\ ~hist.interleaved /\ Len(iter.patterns) >= 2
        /\ \A k \in 1..Len(iter.patterns) : iter.patterns[k] = iter.patterns[1])
            => EndedView = DrainView(<<iter.patterns[1]>>)

\* a list that repeats a pattern was drained and yielded entries
C7_Witness ==
    /\ hist.outcome = "done" /\ ~hist.interleaved
    /\ Len(iter.patterns) >= 2 /\ iter.patterns[1] = iter.patterns[2]
    /\ Len(hist.entries) >= 2

\* a list of patterns without its empty strings
RECURSIVE WithoutEmpty(_)
WithoutEmpty(patterns) ==
    IF patterns = << >> THEN << >>
    ELSE IF Head(patterns) = EmptyPattern THEN WithoutEmpty(Tail(patterns))
    ELSE <<Head(patterns)>> \o WithoutEmpty(Tail(patterns))

\* C8: empty-string patterns are skipped: a list with empty strings gives
\* the entries and the error of the list without them.
C8_EmptyPatternsSkipped ==
    (Ended /\ ~hist.interleaved
        /\ \E k \in 1..Len(iter.patterns) : iter.patterns[k] = EmptyPattern)
        => EndedView = DrainView(WithoutEmpty(iter.patterns))

\* a list that starts with an empty string was drained and yielded entries
C8_Witness ==
    /\ Ended /\ ~hist.interleaved
    /\ Len(iter.patterns) >= 2 /\ iter.patterns[1] = EmptyPattern
    /\ hist.entries # << >>

----------------------------------------------------------------------------
\* the factory was asked for the personal config during the last call
PersonalConfigLoaded ==
    \E i \in 1..Len(last.loads) :
        last.loads[i].name = "PersonalConfig" /\ last.loads[i].dir = homedir

\* no element of the raw array of the last call, and none of the CLI array,
\* has a non-empty filePath, and useEslintrc is on
NoRegularConfigFile ==
    /\ options.useEslintrc
    /\ \A i \in 1..Len(heap[last.raw]) : heap[last.raw][i].filePath = << >>
    /\ \A i \in 1..Len(heap[slots.cliConfigArray]) :
            heap[slots.cliConfigArray][i].filePath = << >>

\* C11: when getConfigArrayForFile finalizes a raw array, the personal config
\* is loaded from the home directory only if useEslintrc is on and neither the
\* raw array nor the CLI array has an element with a file path, and in that
\* case it is loaded whenever the finalizer computes (no finalizeCache entry
\* for the raw array); with a project config file or a --config file the home
\* directory is not consulted.
C11_PersonalConfigIffNoConfigFile ==
    (last.op = "get" /\ last.raw # 0) =>
        /\ PersonalConfigLoaded => NoRegularConfigFile
        /\ (~last.cached /\ NoRegularConfigFile) => PersonalConfigLoaded

\* the personal config was loaded and its element is in the returned array
C11_Witness ==
    /\ last.op = "get" /\ last.raw # 0 /\ last.err = ""
    /\ ~last.cached /\ NoRegularConfigFile /\ PersonalConfigLoaded
    /\ \E i \in 1..Len(heap[last.val]) : heap[last.val][i].name = "PersonalConfig"

\* with --config given and no project config file, nothing is loaded from home
C11_WitnessCLIFile ==
    /\ last.op = "get" /\ last.raw # 0 /\ last.err = "" /\ ~last.cached
    /\ options.useEslintrc /\ options.specificConfigPath
    /\ \A i \in 1..Len(heap[last.raw]) : heap[last.raw][i].filePath = << >>
    /\ ~PersonalConfigLoaded

----------------------------------------------------------------------------
\* the pattern is dispatched to _iterateFilesWithFile
NamesFileDirectly(pattern) ==
    /\ ~(options.globInputPaths /\ IsGlobPattern(pattern))
    /\ Resolve(options.cwd, pattern) \in ExistingFiles

\* the entries of the running iteration that carry the path
EntriesOf(path) == {i \in 1..Len(hist.entries) : hist.entries[i].filePath = path}

\* no pattern before the k-th has the path in its expansion
FirstToName(k, path) ==
    \A j \in 1..(k - 1) :
        \A e \in Expansion(iter.patterns[j]) : e.filePath # path

\* C12: a pattern that names an existing file directly (the file not being
\* produced by an earlier pattern of the list) yields exactly one entry for
\* it; with ignore on the entry is ignored iff the default ignore predicate
\* (the one that excludes dotfiles, user patterns included) contains the path,
\* with ignore off it is never ignored; such a pattern raises neither
\* AllFilesIgnored nor NoFilesFound.
C12_DirectFileOneEntry ==
    /\ \A k \in Passed :
        LET path == Resolve(options.cwd, iter.patterns[k])
        IN (NamesFileDirectly(iter.patterns[k]) /\ FirstToName(k, path)) =>
            /\ Cardinality(EntriesOf(path)) = 1
            /\ \A i \in EntriesOf(path) :
                hist.entries[i].ignored =
                    (options.ignore /\ IgnoredPathsContains(path, FALSE, "all"))
    /\ hist.outcome \in {"AllFilesIgnored", "NoFilesFound"} =>
            ~NamesFileDirectly(iter.patterns[hist.at])

\* a dotfile named directly was yielded as ignored, with ignore on
C12_Witness ==
    /\ hist.outcome = "done" /\ options.ignore
    /\ iter.patterns = <<FileDotInA>>
    /\ Len(hist.entries) = 1 /\ hist.entries[1].ignored

\* with ignore off, a dotfile and a file the user ignores, named directly,
\* were yielded as not ignored
C12_WitnessIgnoreOff ==
    /\ hist.outcome = "done" /\ ~options.ignore
    /\ options.ignorePattern = {<<"a", "b", "one.js">>}
    /\ iter.patterns = <<FileDotInA, FileOneInB>>
    /\ Len(hist.entries) = 2
    /\ ~hist.entries[1].ignored /\ ~hist.entries[2].ignored

----------------------------------------------------------------------------
\* the pattern is dispatched to a glob walk or a directory walk
StartsWalk(pattern) ==
    \/ options.globInputPaths /\ IsGlobPattern(pattern)
    \/ Resolve(options.cwd, pattern) \in ExistingDirs

\* the directory at which the walk of a pattern starts
WalkTop(pattern) ==
    LET absolutePath == Resolve(options.cwd, pattern)
    IN IF options.globInputPaths /\ IsGlobPattern(pattern)
       THEN GetGlobParent(absolutePath) ELSE absolutePath

\* the files the walk of a pattern selects, were nothing ignored
Candidates(pattern) ==
    LET absolutePath == Resolve(options.cwd, pattern)
        glob == options.globInputPaths /\ IsGlobPattern(pattern)
        top == WalkTop(pattern)
    IN {g \in ExistingFiles :
            /\ top \in ExistingDirs
            /\ IsUnder(top, Dirname(g))
            /\ IF glob
               THEN /\ RecursiveTest(GlobPart(absolutePath)) \/ Dirname(g) = top
                    /\ MinimatchMatch(absolutePath, g)
               ELSE ExtRegExpTest(g)}

\* a path matches the built-in default patterns of the variant of the pattern
MatchesDefaults(pattern, path) == DefaultIgnored(path, DotfilesPatternTest(pattern))

\* the candidates in directories that no built-in default pattern prunes
Reached(pattern) ==
    {g \in Candidates(pattern) :
        \A d \in DirsBetween(WalkTop(pattern), Dirname(g)) : ~MatchesDefaults(pattern, d)}

\* the files a walk delivers when only the built-in defaults filter
Delivered(pattern) == {g \in Reached(pattern) : ~MatchesDefaults(pattern, g)}

\* C13: with ignore off, a walk (glob or directory) skips a file or prunes a
\* directory iff it matches the built-in default patterns, whatever the user
\* patterns are: a walk that passed delivered exactly the unpruned matching
\* files outside the defaults, each once and not ignored; every entry comes
\* from such a walk or a direct file; a walk fails with AllFilesIgnored iff it
\* reached matching files and all of them match the defaults.
C13_IgnoreOffDefaultsOnly ==
    ~options.ignore =>
        /\ \A k \in Passed : StartsWalk(iter.patterns[k]) =>
            /\ Delivered(iter.patterns[k]) # {}
            /\ \A g \in Delivered(iter.patterns[k]) :
                /\ Cardinality(EntriesOf(g)) = 1
                /\ \A i \in EntriesOf(g) : ~hist.entries[i].ignored
        /\ \A i \in 1..Len(hist.entries) : \E k \in 1..Len(iter.patterns) :
            /\ k <= hist.at
            /\ IF StartsWalk(iter.patterns[k])
               THEN hist.entries[i].filePath \in Delivered(iter.patterns[k])
               ELSE hist.entries[i].filePath = Resolve(options.cwd, iter.patterns[k])
        /\ (hist.outcome \in {"AllFilesIgnored", "NoFilesFound"}
                /\ StartsWalk(iter.patterns[hist.at])) =>
            /\ Delivered(iter.patterns[hist.at]) = {}
            /\ (hist.outcome = "AllFilesIgnored")
                    = (Reached(iter.patterns[hist.at]) # {})

\* with ignore off and a user pattern on /a/b, a recursive glob delivered the
\* files of /a/b and skipped the dotfile of /a
C13_Witness ==
    /\ ~options.ignore /\ options.ignorePattern = {DirB}
    /\ hist.outcome = "done" /\ iter.patterns = <<GlobRecursiveA>>
    /\ Delivered(GlobRecursiveA) # Candidates(GlobRecursiveA)
    /\ Len(hist.entries) = Cardinality(Delivered(GlobRecursiveA))
    /\ \E i \in 1..Len(hist.entries) : IsUnder(DirB, hist.entries[i].filePath)

\* with ignore off, a directory holding only a dotfile and a pruned dot
\* directory failed
C13_WitnessAllIgnored ==
    /\ ~options.ignore /\ hist.outcome = "AllFilesIgnored"
    /\ iter.patterns[hist.at] = Abs(DirC)
    /\ Reached(Abs(DirC)) # {}
    /\ Candidates(Abs(DirC)) # Reached(Abs(DirC))

----------------------------------------------------------------------------
\* the elements of an array are in order of depth: elements without a file
\* first, then elements of config files of directories above `dir` or of
\* `dir` itself, every deeper one after every shallower one
ShallowestFirst(arr, dir) ==
    /\ \A i \in 1..Len(arr) :
            arr[i].filePath # << >> => IsUnder(Dirname(arr[i].filePath), dir)
    /\ \A i, j \in 1..Len(arr) : i < j =>
        /\ arr[j].filePath = << >> => arr[i].filePath = << >>
        /\ (arr[i].filePath # << >> /\ arr[j].filePath # << >>)
                => Len(arr[i].filePath) < Len(arr[j].filePath)

\* C14: the array the ancestor resolver produces for a directory d starts
\* with the elements of the base array, followed by the elements of the
\* config files of d's ancestors and of d, shallowest first, d's own last.
C14_ShallowestFirst ==
    (last.op = "get" /\ last.raw # 0) =>
        /\ IsPrefix(heap[slots.baseConfigArray], heap[last.raw])
        /\ ShallowestFirst(heap[last.raw], Dirname(LastPath))

\* the order alone: in every resolved array a deeper element comes after
\* every shallower one, and elements without a file come first
C14_DeeperAfterShallower ==
    (last.op = "get" /\ last.raw # 0) =>
        ShallowestFirst(heap[last.raw], Dirname(LastPath))

\* a resolved array that holds a base element, an ancestor's element and the
\* element of the directory itself
C14_Chain ==
    /\ last.op = "get" /\ last.raw # 0
    /\ Len(heap[slots.baseConfigArray]) > 0
    /\ Len(heap[last.raw]) >= Len(heap[slots.baseConfigArray]) + 2
    /\ heap[last.raw][Len(heap[last.raw])].filePath
            = Append(Dirname(LastPath), ".eslintrc")

----------------------------------------------------------------------------
\* a pattern of the running iterateFiles call matches no files
SomePatternMatchesNothing ==
    \E k \in 1..Len(iter.patterns) :
        ~IsSkipped(iter.patterns[k]) /\ Expansion(iter.patterns[k]) = {}

\* C15: when a pattern of an iterateFiles call matches no files, the consumer
\* receives no entry from that call, at any time: not from the patterns before
\* the failing one either; and the call cannot complete normally.
C15_NoPartialResults ==
    SomePatternMatchesNothing =>
        /\ hist.entries = << >>
        /\ hist.outcome # "done"

----------------------------------------------------------------------------
\* C16: a getConfigArrayForFile call for a path in a directory for which a
\* call has returned an array since the last clearCache() makes no
\* loadOnDirectory call: the resolver finds the directory in configCache and
\* the finalizer finds the resolved array in finalizeCache, and the array
\* returned before is returned again.
C16_SecondCallLoadsNothing ==
    (last.op = "get" /\ last.again) =>
        /\ last.loads = << >>
        /\ last.cached
        /\ last.err = ""
        /\ \A g \in hist.got : g.dir = Dirname(LastPath) => g.val = last.val

\* a directory whose array ends with the personal config was looked up again
C16_Witness ==
    /\ last.op = "get" /\ last.again /\ last.err = ""
    /\ NoRegularConfigFile
    /\ \E i \in 1..Len(heap[last.val]) : heap[last.val][i].name = "PersonalConfig"

----------------------------------------------------------------------------
\* the elements of array `id` that the factory created from the CLI options
CLIOptionsOf(id) ==
    {heap[id][i] : i \in {j \in 1..Len(heap[id]) : heap[id][j].name = "CLIOptions"}}

\* the state of the plugin in an element created when the pool was `inPool`
Resolved(inPool) == IF inPool THEN "loaded" ELSE "error"

\* C17: the CLI elements of a returned array show the plugin as the factory
\* resolved it when the CLI array was last built, by the constructor or by the
\* latest clearCache() before the return: a plugin added to the pool shows in
\* the arrays returned after the next clearCache(), and the arrays returned
\* before that clearCache() keep showing the loading error.
C17_RebuiltFromRetainedInputs ==
    /\ \A g \in hist.got \cup hist.before :
        /\ \A e \in CLIOptionsOf(g.val) : e.plugin = Resolved(g.built)
        /\ options.cliConfig = "obj" => CLIOptionsOf(g.val) # {}
    /\ \A g \in hist.got : g.built = hist.built

\* one directory looked up before and after the clearCache() that followed
\* the addition of the plugin: the earlier array shows the loading error, the
\* later one the plugin
C17_Witness ==
    \E b \in hist.before, g \in hist.got :
        /\ b.dir = g.dir /\ pool
        /\ \E e \in CLIOptionsOf(b.val) : e.plugin = "error"
        /\ \E e \in CLIOptionsOf(g.val) : e.plugin = "loaded"

----------------------------------------------------------------------------
\* the resolved arrays that the suspended generator still refers to
HeldByGenerator ==
    ({iter.inner.stack[k].config : k \in 1..Len(iter.inner.stack)}
        \cup {iter.inner.stack[k].parentConfig : k \in 1..Len(iter.inner.stack)}
        \cup {iter.inner.items[k].config : k \in 1..Len(iter.inner.items)}) \ {0}

\* C18: right after clearCache() returns, configCache has no entry and
\* finalizeCache has no entry; finalizeCache holds its keys weakly, so this is
\* stated for the keys that are still referred to.
C18_BothCachesEmpty ==
    last.op = "clear" =>
        /\ \A d \in AllDirs : slots.configCache[d] = 0
        /\ \A id \in HeldByGenerator : slots.finalizeCache[id] = 0

\* the directory cache is empty right after clearCache()
C18_ConfigCacheEmpty ==
    last.op = "clear" => \A d \in AllDirs : slots.configCache[d] = 0

\* an entry yielded after a clearCache() that followed the addition of the
\* plugin carries CLI elements built before it
C18_StaleEntry ==
    /\ last.op = "next" /\ last.err = "" /\ last.val # 0 /\ hist.built
    /\ \E e \in CLIOptionsOf(last.val) : e.plugin = "error"

----------------------------------------------------------------------------
\* the plugin ids of an extracted config, in insertion order
InsertionOrder(config) == [i \in 1..Len(config.plugins) |-> config.plugins[i].key]

\* what the conversion gives apart from the order of the plugin ids
CompatibleExceptOrder ==
    LET this == extracted.original
        result == extracted.result
    IN /\ DOMAIN result = DOMAIN this \ {"processor"}
       /\ \A f \in DOMAIN result \ {"parser", "plugins"} : result[f] = this[f]
       /\ result.parser = CASE this.parser = Null -> Null
                            [] this.parser.v = "" -> Undefined
                            [] OTHER -> Str(this.parser.v)
       /\ Len(result.plugins) = Len(this.plugins)
       /\ {result.plugins[i] : i \in 1..Len(result.plugins)}
            = {this.plugins[i].key : i \in 1..Len(this.plugins)}
       /\ extracted.this = this

\* C19: toCompatibleObjectAsConfigFileContent() returns the fields of the
\* extracted config without processor, parser replaced by the file path of
\* the parser descriptor (or the falsy parser), plugins replaced by the plugin
\* ids in the reverse of their insertion order; the receiver is unchanged.
C19_CompatibleObject ==
    extracted.result # NoResult =>
        /\ CompatibleExceptOrder
        /\ extracted.result.plugins = Reverse(InsertionOrder(extracted.original))

\* the same, the order being stated for plugin ids that are not array indices
C19_CompatibleObjectOfNames ==
    extracted.result # NoResult =>
        /\ CompatibleExceptOrder
        /\ (\A i \in 1..Len(extracted.original.plugins) :
                ~IsArrayIndex(extracted.original.plugins[i].key))
            => extracted.result.plugins = Reverse(InsertionOrder(extracted.original))

\* a config with a parser, a processor and two named plugins was converted
C19_Converted ==
    /\ extracted.result # NoResult
    /\ extracted.original.parser = ConfigDependency("parser.js")
    /\ extracted.original.processor # Null
    /\ InsertionOrder(extracted.original) = <<"a", "b">>
    /\ extracted.result.plugins = <<"b", "a">>

----------------------------------------------------------------------------
\* the first character of a name is "."
BeginsWithDot(n) == n \in {".", "..", ".foo.js", ".*.js", ".h"}

\* the name is "." followed by a character other than "."
DotThenNonDot(n) == BeginsWithDot(n) /\ n \notin {".", ".."}

\* the pattern text begins with "." or has a separator followed by "." and a
\* character other than "."; the "." segment is followed by a separator or
\* by the end of the text
BeginsWithDotOrHasDotSegment(pattern) ==
    \/ ~pattern.abs /\ pattern.segs # << >> /\ BeginsWithDot(pattern.segs[1])
    \/ \E i \in 1..Len(pattern.segs) :
        /\ pattern.abs \/ i > 1
        /\ \/ DotThenNonDot(pattern.segs[i])
           \/ pattern.segs[i] = "." /\ i < Len(pattern.segs)

\* the pattern text has, at its start or after a separator, a "." followed
\* by a character that is neither "." nor a separator
HasDotNameSegment(pattern) ==
    \E i \in 1..Len(pattern.segs) : DotThenNonDot(pattern.segs[i])

\* the ignore check of a walk that uses the with-dotfiles variant iff v
IgnoredAs(path, v) ==
    IgnoredPathsContains(path, v, IF options.ignore THEN "all" ELSE "default")

ReachedAs(pattern, v) ==
    {g \in Candidates(pattern) :
        \A d \in DirsBetween(WalkTop(pattern), Dirname(g)) : ~IgnoredAs(d, v)}

DeliveredAs(pattern, v) == {g \in ReachedAs(pattern, v) : ~IgnoredAs(g, v)}

\* every walk of the running iteration used, for all its directories and
\* files, the variant that WithDotfiles tells from the text of its pattern
WalksUseVariant(WithDotfiles(_)) ==
    /\ \A k \in Passed : StartsWalk(iter.patterns[k]) =>
        LET v == WithDotfiles(iter.patterns[k])
        IN /\ DeliveredAs(iter.patterns[k], v) # {}
           /\ \A g \in DeliveredAs(iter.patterns[k], v) :
                /\ Cardinality(EntriesOf(g)) = 1
                /\ FirstToName(k, g) =>
                        \A i \in EntriesOf(g) : ~hist.entries[i].ignored
    /\ \A i \in 1..Len(hist.entries) : \E k \in 1..Len(iter.patterns) :
        /\ k <= hist.at
        /\ IF StartsWalk(iter.patterns[k])
           THEN hist.entries[i].filePath
                    \in DeliveredAs(iter.patterns[k], WithDotfiles(iter.patterns[k]))
           ELSE hist.entries[i].filePath = Resolve(options.cwd, iter.patterns[k])
    /\ (hist.outcome \in {"AllFilesIgnored", "NoFilesFound"}
            /\ StartsWalk(iter.patterns[hist.at])) =>
        LET v == WithDotfiles(iter.patterns[hist.at])
        IN /\ DeliveredAs(iter.patterns[hist.at], v) = {}
           /\ (hist.outcome = "AllFilesIgnored")
                    = (ReachedAs(iter.patterns[hist.at], v) # {})

\* C20 (as stated): a glob or directory walk uses, for all its directories
\* and files, the with-dotfiles predicate iff the pattern text begins with "."
\* or contains a separator followed by "." and a non-dot character.
C20_VariantFromPatternText == WalksUseVariant(BeginsWithDotOrHasDotSegment)

\* C20: a glob or directory walk uses, for all its directories and files, the
\* with-dotfiles predicate iff the pattern text has, at its start or after a
\* separator, a "." followed by a character that is neither "." nor a
\* separator: a dotfile matched by a glob without such a segment is silently
\* ignored (a directory of dotfiles fails with AllFilesIgnored) and is yielded
\* as not ignored when the glob names the dot.
C20_VariantFromDotNameSegment == WalksUseVariant(HasDotNameSegment)

\* a glob that names the dot yielded the dotfile of /a as not ignored, and the
\* recursive glob without a dot segment did not
C20_Witness ==
    /\ hist.outcome = "done" /\ iter.patterns = <<GlobDotfilesInA, GlobRecursiveA>>
    /\ Cardinality(EntriesOf(<<"a", ".foo.js">>)) = 1
    /\ ~hist.entries[1].ignored
    /\ <<"a", ".foo.js">> \in Candidates(GlobRecursiveA)
    /\ <<"a", ".foo.js">> \notin DeliveredAs(GlobRecursiveA, FALSE)

\* the walk of "./*.js" skipped the dotfile of the working directory
C20_WitnessCurrentDirectory ==
    /\ hist.outcome = "done" /\ iter.patterns = <<GlobInCurrentDirectory>>
    /\ <<"a", ".foo.js">> \in Candidates(GlobInCurrentDirectory)
    /\ EntriesOf(<<"a", ".foo.js">>) = {}
    /\ hist.entries # << >>

----------------------------------------------------------------------------
\* the entries of the expansion of the k-th pattern that iterateFiles yields
\* unless their path was yielded before
Yieldable(k) == {e \in Expansion(iter.patterns[k]) : e.flag # IGNORED_SILENTLY}

\* the patterns that can yield the path
Occurrences(path) ==
    {k \in 1..Len(iter.patterns) :
        ~IsSkipped(iter.patterns[k]) /\ \E e \in Yieldable(k) : e.filePath = path}

\* the first pattern of the list that can yield the path
FirstOccurrence(path) ==
    CHOOSE k \in Occurrences(path) : \A other \in Occurrences(path) : k <= other

\* C21: within one iterateFiles call the entries come in the order of the
\* patterns and a path that several patterns match is yielded once, where
\* its first pattern yields it, with the ignored value of that pattern.
C21_PatternOrderFirstSeenWins ==
    /\ \A i \in 1..Len(hist.entries) :
        LET path == hist.entries[i].filePath
        IN /\ Occurrences(path) # {}
           /\ FirstOccurrence(path) <= hist.at
           /\ \A e \in Yieldable(FirstOccurrence(path)) :
                e.filePath = path => hist.entries[i].ignored = (e.flag = IGNORED)
    /\ \A i, j \in 1..Len(hist.entries) :
        i < j => FirstOccurrence(hist.entries[i].filePath)
                    <= FirstOccurrence(hist.entries[j].filePath)
    /\ \A k \in Passed : \A e \in Yieldable(k) :
            Cardinality(EntriesOf(e.filePath)) = 1

\* a dotfile named directly and then matched by a glob that names the dot was
\* yielded once, as ignored; the glob alone yields it as not ignored
C21_Witness ==
    /\ hist.outcome = "done" /\ options.ignore
    /\ iter.patterns = <<FileDotInA, GlobDotfilesInA>>
    /\ Len(hist.entries) = 1 /\ hist.entries[1].ignored
    /\ \E e \in Yieldable(2) : e.filePath = hist.entries[1].filePath /\ e.flag = NONE

\* two patterns with different files were drained: the entries of the first
\* come before those of the second
C21_WitnessOrder ==
    /\ hist.outcome = "done"
    /\ iter.patterns = <<FileDotInA, GlobInB>>
    /\ Len(hist.entries) = 3
    /\ hist.entries[1].filePath = <<"a", ".foo.js">>

----------------------------------------------------------------------------
\* the file the last call of getConfigArrayForFile was made for
LastFile == Resolve(options.cwd, OrDefault(last.arg))

\* C22: getConfigArrayForFile() with no argument returns the array of the
\* working directory: the instance that getConfigArrayForFile(f) returns for
\* a file f directly inside cwd, whichever of the two calls comes first.
C22_NoArgumentIsWorkingDirectory ==
    (last.op = "get" /\ last.err = "") =>
        \A g \in hist.got :
            (last.arg = NoArgument /\ g.dir = options.cwd)
                \/ (g.path = Resolve(options.cwd, DefaultFilePath)
                        /\ Dirname(LastFile) = options.cwd)
            => g.val = last.val

\* the call without argument returned the array that an earlier call returned
\* for another file of cwd, which is not the array of a file of a subdirectory
C22_Witness ==
    /\ last.op = "get" /\ last.err = "" /\ last.arg = NoArgument
    /\ options.cwd = DirA
    /\ \E g \in hist.got : g.path = <<"a", "one.js">> /\ g.val = last.val
    /\ \E g \in hist.got : g.path = <<"a", "b", "one.js">> /\ g.val # last.val

----------------------------------------------------------------------------
\* the directories that the upward walk from `dir` visits in the current
\* state, when no load fails: it ends at a cached directory, at the home
\* directory, at an unreadable directory, at root: true and at the root
RECURSIVE Walked(_)
Walked(dir) ==
    IF \/ slots.configCache[dir] # 0
       \/ (dir = homedir /\ options.cwd # homedir)
       \/ files[dir] \in {"eacces", "root"}
       \/ dir = Dirname(dir)
    THEN {dir}
    ELSE {dir} \cup Walked(Dirname(dir))

\* the program state after the step
After == [heap |-> heap', slots |-> slots', loads |-> << >>, pool |-> pool']

\* the step is a call of getConfigArrayForFile that returned
Resolves == calls'.total = calls.total + 1 /\ last'.op = "get" /\ last'.err = ""

\* the step is a call of clearCache()
Clears == calls'.total = calls.total + 1 /\ last'.op = "clear"

\* no entry of the per-directory cache is replaced or removed by the step
EntriesKept ==
    \A d \in AllDirs :
        slots.configCache[d] # 0 => slots'.configCache[d] = slots.configCache[d]

\* C23: with useEslintrc = true, after a successful ancestor resolution every
\* directory visited by the upward walk has an entry in the per-directory
\* cache, which is the instance the resolver returns for the files of that
\* directory, and no call other than clearCache() replaces or removes an entry.
C23_VisitedDirectoriesCached ==
    [][/\ Clears \/ EntriesKept
       /\ (options.useEslintrc /\ Resolves) =>
            \E dir \in {Dirname(Resolve(options.cwd, OrDefault(last'.arg)))} :
                /\ last'.raw = slots'.configCache[dir]
                /\ \A d \in Walked(dir) :
                    /\ slots'.configCache[d] # 0
                    /\ \E r \in {LoadConfigInAncestors(After, Append(d, "one.js"))} :
                        /\ r.err = "" /\ r.val = slots'.configCache[d]
                        /\ r.s = After]_vars

\* one resolution filled the entries of /a/b, /a and /, three instances, and
\* a later call for another directory was answered from its entry
C23_Witness ==
    /\ options.useEslintrc /\ last.op = "get" /\ last.err = ""
    /\ last.loads = << >> /\ LastPath = <<"one.js">>
    /\ slots.configCache[DirB] # slots.configCache[DirA]
    /\ slots.configCache[DirA] # slots.configCache[RootDir]
    /\ last.raw = slots.configCache[RootDir]
    /\ \E g \in hist.got : g.dir = DirB

----------------------------------------------------------------------------
\* the walk loads the config of `dir` and goes on to its parent unless it is
\* root: true
LoadsConfigOf(dir) ==
    /\ dir # Dirname(dir)
    /\ ~(dir = homedir /\ options.cwd # homedir)
    /\ files[dir] \notin {"eacces", "error"}

\* the config of `dir` has elements
Contributes(dir) == Len(DirElements(dir, ".eslintrc")) > 0

\* C24: a directory whose config has no elements resolves to the very array
\* of its parent, so the files of both get the same finalized array; a
\* directory whose config has elements resolves to another instance.
C24_EmptyDirectoryIsParent ==
    options.useEslintrc =>
        \A d \in AllDirs :
            (LoadsConfigOf(d) /\ slots.configCache[d] # 0) =>
                /\ slots.configCache[Dirname(d)] # 0 =>
                    (slots.configCache[d] = slots.configCache[Dirname(d)]) = ~Contributes(d)
                /\ ~Contributes(d) =>
                    \A g \in hist.got : \A h \in hist.got :
                        (g.dir = d /\ h.dir = Dirname(d)) => g.val = h.val

\* /a/b has no config and /a has one: files of /a/b and of /a got one array,
\* which is not the array of the files of /
C24_Witness ==
    /\ options.useEslintrc /\ files[DirB] = "none" /\ files[DirA] = "plain"
    /\ slots.configCache[DirB] # 0
    /\ slots.configCache[DirB] = slots.configCache[DirA]
    /\ slots.configCache[DirA] # slots.configCache[RootDir]
    /\ \E g \in hist.got : \E h \in hist.got :
            g.dir = DirB /\ h.dir = DirA /\ g.val = h.val
    /\ \E g \in hist.got : \E h \in hist.got :
            g.dir = DirA /\ h.dir = RootDir /\ g.val # h.val

----------------------------------------------------------------------------
\* the step is a call of getConfigArrayForFile, returning or throwing
Gets == calls'.total = calls.total + 1 /\ last'.op = "get"

\* C25: when loading the config of d fails with access-denied during the
\* ancestor resolution, the resolver raises no error, caches the base array
\* under d and returns it for d, and loads no ancestor of d; a load that
\* fails otherwise ends the resolution and the call with that error.
C25_AccessDeniedStopsAtBase ==
    [][(options.useEslintrc /\ Gets) =>
        \E r \in {LoadConfigInAncestors(Now, Resolve(options.cwd, OrDefault(last'.arg)))} :
            /\ r.err \in {"", "LoadError"}
            /\ \A i \in 1..Len(r.s.loads) :
                LET d == r.s.loads[i].dir
                IN /\ files[d] = "eacces" =>
                        /\ r.err = "" /\ i = Len(r.s.loads)
                        /\ slots'.configCache[d] = slots.baseConfigArray
                        /\ slots'.baseConfigArray = slots.baseConfigArray
                        /\ LoadConfigInAncestors(After, Append(d, "one.js")).val
                                = slots.baseConfigArray
                   /\ files[d] = "error" =>
                        /\ r.err = "LoadError" /\ i = Len(r.s.loads)
                        /\ last'.err = "LoadError"
                        /\ slots'.configCache = slots.configCache]_vars

\* /a is unreadable: the resolution for /a/b/one.js loaded /a/b and /a and
\* not /, and /a holds the base array while /a/b holds its own
C25_Witness ==
    /\ last.op = "get" /\ last.err = "" /\ LastFile = <<"a", "b", "one.js">>
    /\ files[DirA] = "eacces" /\ files[RootDir] = "plain"
    /\ last.loads = <<[dir |-> DirB, name |-> ".eslintrc"],
                      [dir |-> DirA, name |-> ".eslintrc"]>>
    /\ slots.configCache[DirA] = slots.baseConfigArray
    /\ slots.configCache[DirB] = last.raw /\ last.raw # slots.baseConfigArray
    /\ slots.configCache[RootDir] = 0

\* the load of / failed otherwise: the call for /a/b/one.js threw that error
C25_WitnessOtherError ==
    /\ last.op = "get" /\ last.err = "LoadError" /\ LastFile = <<"a", "b", "one.js">>
    /\ files[RootDir] = "error"
    /\ Len(last.loads) = 3

----------------------------------------------------------------------------
\* C26: when the home directory is not cwd, a walk that comes to the home
\* directory caches and returns the base array for it and loads neither
\* its config nor a config above it; when cwd is the home directory, the
\* walk loads the config of the home directory as the config of a project
\* directory and goes on above it.
C26_HomeDirectoryStop ==
    [][(options.useEslintrc /\ Gets) =>
        \E file \in {Resolve(options.cwd, OrDefault(last'.arg))} :
        \E r \in {LoadConfigInAncestors(Now, file)} :
            /\ (options.cwd # homedir /\ IsPrefix(homedir, Dirname(file))) =>
                /\ \A i \in 1..Len(r.s.loads) : ~IsPrefix(r.s.loads[i].dir, homedir)
                /\ slots'.configCache[homedir] \in {0, slots.baseConfigArray}
                /\ Dirname(file) = homedir =>
                    /\ r.err = "" /\ r.val = slots.baseConfigArray
                    /\ slots'.configCache[homedir] = slots.baseConfigArray
            /\ (options.cwd = homedir /\ Dirname(file) = homedir
                    /\ slots.configCache[homedir] = 0) =>
                /\ Len(r.s.loads) > 0
                /\ r.s.loads[1] = [dir |-> homedir, name |-> ".eslintrc"]
                /\ (r.err = "" /\ Contributes(homedir)) =>
                    /\ r.val # slots.baseConfigArray
                    /\ r.s.heap[r.val][Len(r.s.heap[r.val])].filePath
                            = Append(homedir, ".eslintrc")
                /\ (r.err = "" /\ files[homedir] = "plain" /\ homedir # RootDir
                        /\ slots.configCache[Dirname(homedir)] = 0) =>
                    (Len(r.s.loads) > 1 /\ r.s.loads[2].dir = Dirname(homedir))]_vars

\* home is /a and cwd is /: the call for /a/b/one.js loaded /a/b and stopped
\* at /a, which holds the base array; / was not visited
C26_Witness ==
    /\ options.useEslintrc /\ last.op = "get" /\ last.err = ""
    /\ homedir = DirA /\ options.cwd = RootDir /\ files[DirA] = "plain"
    /\ LastFile = <<"a", "b", "one.js">>
    /\ last.loads = <<[dir |-> DirB, name |-> ".eslintrc"]>>
    /\ slots.configCache[DirA] = slots.baseConfigArray
    /\ slots.configCache[RootDir] = 0

\* home and cwd are /a: the call for a file of /a loaded /a and then /
C26_WitnessCwdIsHome ==
    /\ options.useEslintrc /\ last.op = "get" /\ last.err = ""
    /\ homedir = DirA /\ options.cwd = DirA
    /\ Dirname(LastFile) = DirA
    /\ last.loads = <<[dir |-> DirA, name |-> ".eslintrc"],
                      [dir |-> RootDir, name |-> ".eslintrc"]>>
    /\ FilePathsOf(last.raw) = {<<".eslintrc">>, <<"a", ".eslintrc">>}

----------------------------------------------------------------------------
\* the elements of the personal config, when the fallback applies to the
\* array resolved by the last call
PersonalPart ==
    IF /\ options.useEslintrc /\ ~options.specificConfigPath
       /\ \A i \in 1..Len(heap[last.raw]) : heap[last.raw][i].filePath = << >>
    THEN DirElements(homedir, "PersonalConfig")
    ELSE << >>

\* the element of the --config file
ConfigFilePart ==
    IF options.specificConfigPath
    THEN <<Elem("--config", <<"config.json">>, FALSE, TRUE)>>
    ELSE << >>

\* the element of the inline CLI options
CLIOptionsPart ==
    IF options.cliConfig = "null" THEN << >>
    ELSE <<[Elem("CLIOptions", << >>, FALSE, TRUE) EXCEPT
                !.plugin = IF hist.built THEN "loaded" ELSE "error"]>>

\* the last Len(part) elements of arr are part
IsSuffix(part, arr) ==
    /\ Len(part) <= Len(arr)
    /\ SubSeq(arr, Len(arr) - Len(part) + 1, Len(arr)) = part

\* C27: the finalized array is, in this order, the elements of the raw array,
\* those of the personal config if the fallback applied, those of the
\* --config file and those of the inline CLI options; the elements of a
\* non-empty CLI array are its suffix.
C27_FinalizedConcatenation ==
    (last.op = "get" /\ last.err = "") =>
        /\ heap[last.val] = heap[last.raw] \o PersonalPart \o ConfigFilePart \o CLIOptionsPart
        /\ IsSuffix(heap[slots.cliConfigArray], heap[last.val])
        /\ heap[slots.cliConfigArray] = ConfigFilePart \o CLIOptionsPart

\* project configs, the --config file and the inline options, in this
\* order, made an array of at least four elements
C27_Witness ==
    /\ last.op = "get" /\ last.err = "" /\ options.useEslintrc
    /\ options.specificConfigPath /\ options.cliConfig = "obj"
    /\ Len(heap[last.raw]) >= 2 /\ Len(heap[last.val]) = Len(heap[last.raw]) + 2
    /\ heap[last.val][Len(heap[last.val]) - 1].name = "--config"
    /\ heap[last.val][Len(heap[last.val])].name = "CLIOptions"

\* the personal config follows the raw array and precedes the CLI options
C27_WitnessPersonal ==
    /\ last.op = "get" /\ last.err = "" /\ options.baseConfig = "obj"
    /\ Len(heap[last.val]) = 3
    /\ heap[last.val][1].name = "BaseConfig"
    /\ heap[last.val][2].name = "PersonalConfig"
    /\ heap[last.val][3].name = "CLIOptions"

----------------------------------------------------------------------------
\* the last step was a pull that yielded an entry
Yielded == last.op = "next" /\ last.err = "" /\ last.val # 0

\* with useEslintrc = false no directory config is loaded and the
\* per-directory cache stays empty
C28_NothingLoadedNothingCached ==
    ~options.useEslintrc =>
        /\ last.loads = << >>
        /\ \A d \in AllDirs : slots.configCache[d] = 0

\* C28: with useEslintrc = false, between two clearCache() calls the arrays
\* returned by getConfigArrayForFile and the arrays of the entries yielded
\* by iterateFiles are one instance whatever the path, no directory config
\* is loaded and no per-directory cache entry is created.
C28_OneInstanceWithoutEslintrc ==
    ~options.useEslintrc =>
        /\ C28_NothingLoadedNothingCached
        /\ \A g \in hist.got : \A h \in hist.got : g.val = h.val
        /\ Yielded => \A g \in hist.got : g.val = last.val

\* the same, for the entries of generators created since the last clearCache()
C28_OneInstanceOfFreshGenerators ==
    ~options.useEslintrc =>
        /\ \A g \in hist.got : \A h \in hist.got : g.val = h.val
        /\ (Yielded /\ hist.snap.slots.baseConfigArray = slots.baseConfigArray) =>
                \A g \in hist.got : g.val = last.val

\* a generator created before a clearCache() yielded, after it, an array
\* that is not the one getConfigArrayForFile returned after it
C28_StaleInstance ==
    /\ ~options.useEslintrc /\ Yielded
    /\ hist.snap.slots.baseConfigArray # slots.baseConfigArray
    /\ \E g \in hist.got : g.val # last.val

----------------------------------------------------------------------------
\* the running generator was created before the last clearCache()
StartedBeforeClearCache ==
    iter.status # "none" /\ hist.snap.slots.baseConfigArray # slots.baseConfigArray

\* the arrays handed out before the last clearCache(): those returned by
\* getConfigArrayForFile, and those of the earlier entries of the generator
\* that were created before the base array in use (arrays are numbered in the
\* order of their creation)
HandedOutBefore ==
    {b.val : b \in hist.before}
        \cup {hist.entries[i].config : i \in
                {j \in 1..(Len(hist.entries) - 1) :
                    hist.entries[j].config < slots.baseConfigArray}}

\* C29: a generator created before a clearCache() and resumed after it
\* yields no array that the enumerator handed out before the clearCache().
C29_NoPriorIdentityFromGenerator ==
    (Yielded /\ StartedBeforeClearCache) => last.val \notin HandedOutBefore

----------------------------------------------------------------------------
\* the arrays that exist before the step
Existing == 1..Len(heap)

\* C30: no call of getConfigArrayForFile or iterateFiles changes which arrays
\* are the base array and the CLI array or what their elements are;
\* clearCache() replaces both by new arrays; and no step changes the elements
\* of an array that exists, so none of an array that was returned.
C30_ArraysNeverModified ==
    [][/\ Len(heap') >= Len(heap)
       /\ \A id \in Existing : heap'[id] = heap[id]
       /\ Clears \/ (/\ slots'.baseConfigArray = slots.baseConfigArray
                     /\ slots'.cliConfigArray = slots.cliConfigArray)
       /\ Clears => /\ slots'.baseConfigArray \notin Existing
                    /\ slots'.cliConfigArray \notin Existing]_vars

\* two directories got arrays that begin with the elements of the base
\* array, which is still the array the constructor made
C30_Witness ==
    /\ last.op = "get" /\ last.err = "" /\ options.baseConfig = "obj"
    /\ slots.baseConfigArray = 1 /\ Len(heap[1]) = 1
    /\ \E g \in hist.got : \E h \in hist.got :
        /\ g.val # h.val
        /\ Len(heap[g.val]) > Len(heap[h.val]) /\ Len(heap[h.val]) > 1
        /\ IsPrefix(heap[1], heap[g.val]) /\ IsPrefix(heap[1], heap[h.val])

----------------------------------------------------------------------------
\* the ignore predicate answers true for a directory between the top of the
\* walk of the pattern and the file
InIgnoredDirectory(pattern, g) ==
    \E d \in DirsBetween(WalkTop(pattern), Dirname(g)) :
        IsIgnoredFile(d, DotfilesPatternTest(pattern), FALSE)

\* the files the walk of the pattern selects outside the ignored directories
Unpruned(pattern) == {g \in Candidates(pattern) : ~InIgnoredDirectory(pattern, g)}

\* C31: a walk produces no entry for a file in or below a directory for
\* which the ignore predicate answers true: what is yielded comes from
\* outside such directories, and a walk whose matches all lie in them fails
\* with NoFilesFound, not AllFilesIgnored.
C31_IgnoredDirectoryPruned ==
    /\ \A i \in 1..Len(hist.entries) : \E k \in 1..Len(iter.patterns) :
        /\ k <= hist.at
        /\ IF StartsWalk(iter.patterns[k])
           THEN hist.entries[i].filePath \in Unpruned(iter.patterns[k])
           ELSE hist.entries[i].filePath = Resolve(options.cwd, iter.patterns[k])
    /\ \A k \in Passed : StartsWalk(iter.patterns[k]) => Unpruned(iter.patterns[k]) # {}
    /\ (hist.outcome \in {"AllFilesIgnored", "NoFilesFound"}
            /\ StartsWalk(iter.patterns[hist.at])) =>
        (hist.outcome = "NoFilesFound") = (Unpruned(iter.patterns[hist.at]) = {})

\* the glob matches files, all of them in a directory the user ignores: the
\* walk failed with NoFilesFound
C31_Witness ==
    /\ hist.outcome = "NoFilesFound" /\ options.ignore
    /\ iter.patterns[hist.at] = GlobInB
    /\ Candidates(GlobInB) # {} /\ Unpruned(GlobInB) = {}

\* a recursive walk passed the ignored directory /a/b and yielded the file
\* listed after it
C31_WitnessSibling ==
    /\ hist.outcome = "done" /\ iter.patterns = <<GlobRecursiveA>>
    /\ DirB \in options.ignorePattern
    /\ Len(hist.entries) = 1 /\ hist.entries[1].filePath = <<"a", "one.js">>

----------------------------------------------------------------------------
\* the strategy that the precedence glob, directory, file gives a pattern
Strategy(pattern) ==
    LET absolutePath == Resolve(options.cwd, pattern)
    IN IF options.globInputPaths /\ IsGlobPattern(pattern) THEN "glob"
       ELSE IF absolutePath \in ExistingDirs THEN "directory"
       ELSE IF absolutePath \in ExistingFiles THEN "file"
       ELSE "none"

\* the paths that the strategy of a pattern yields, stated from the file
\* system: the files the glob matches, the files of the directory with the
\* extension, the file itself, or nothing
YieldedBy(pattern) ==
    LET absolutePath == Resolve(options.cwd, pattern)
        dotfiles == DotfilesPatternTest(pattern)
        BySelector(f) == MinimatchMatch(absolutePath, f)
        ByExtension(f) == ExtRegExpTest(f)
        Shown(entries) == {e.filePath : e \in {x \in entries : x.flag # IGNORED_SILENTLY}}
    IN CASE Strategy(pattern) = "glob" ->
                Shown(WalkEntries(GetGlobParent(absolutePath),
                                  RecursiveTest(GlobPart(absolutePath)), dotfiles, BySelector))
         [] Strategy(pattern) = "directory" ->
                Shown(WalkEntries(absolutePath, TRUE, dotfiles, ByExtension))
         [] Strategy(pattern) = "file" -> {absolutePath}
         [] OTHER -> {}

\* C32: a pattern is expanded as a glob when globbing is enabled and it has
\* glob characters, also when a file or a directory has that very name;
\* otherwise as a directory walk by extension if it names a directory,
\* otherwise as the one file it names, otherwise as nothing.
C32_GlobThenDirectoryThenFile ==
    /\ \A k \in Passed : \A f \in YieldedBy(iter.patterns[k]) : EntriesOf(f) # {}
    /\ \A i \in 1..Len(hist.entries) : \E k \in 1..Len(iter.patterns) :
        k <= hist.at /\ hist.entries[i].filePath \in YieldedBy(iter.patterns[k])
    /\ \A k \in Passed : Strategy(iter.patterns[k]) # "none"
    /\ hist.outcome = "NoFilesFound" => Strategy(iter.patterns[hist.at]) # "file"
    /\ (iter.status = "done" /\ hist.at \in 1..Len(iter.patterns)
            /\ Strategy(iter.patterns[hist.at]) = "none"
            /\ ~IsSkipped(iter.patterns[hist.at])) =>
        hist.outcome = "NoFilesFound"

\* globbing is enabled and the pattern is the name of a file: it was expanded
\* as a glob and yielded that file and another one
C32_Witness ==
    /\ options.globInputPaths /\ hist.outcome = "done"
    /\ iter.patterns = <<GlobNamedFile>>
    /\ Resolve(options.cwd, GlobNamedFile) \in ExistingFiles
    /\ Len(hist.entries) = 2
    /\ hist.entries[2].filePath = <<"g", "one.js">>

\* globbing is disabled and the pattern is the name of a directory: it was
\* walked by extension and yielded the file in it
C32_WitnessDirectory ==
    /\ ~options.globInputPaths /\ hist.outcome = "done"
    /\ iter.patterns = <<GlobNamedDirectory>>
    /\ Len(hist.entries) = 1
    /\ hist.entries[1].filePath = <<"g", "**", "two.js">>

\* globbing is disabled and the pattern is the name of a file: one entry
C32_WitnessFile ==
    /\ ~options.globInputPaths /\ hist.outcome = "done"
    /\ iter.patterns = <<GlobNamedFile>>
    /\ Len(hist.entries) = 1
    /\ hist.entries[1].filePath = <<"g", "*.js">>

----------------------------------------------------------------------------
\* the pattern whose expansion ended the iteration
FailedPattern == iter.patterns[hist.at]

\* the pattern reads as a glob while globbing is disabled
ReadsAsGlobWhileDisabled(pattern) == ~options.globInputPaths /\ IsGlobPattern(pattern)

\* the globDisabled field of NoFilesFound is true iff the pattern has glob
\* characters and globInputPaths is false
GlobDisabledField ==
    (hist.outcome = "NoFilesFound" /\ last.op = "next") =>
        /\ last.data.pattern = FailedPattern
        /\ last.data.globDisabled = ReadsAsGlobWhileDisabled(FailedPattern)

\* C33 as stated: the field is as above, and with globInputPaths = false a
\* pattern with glob characters that names a file or a directory raises no
\* NoFilesFound.
C33_NoErrorForLiteralPath ==
    /\ GlobDisabledField
    /\ (hist.outcome = "NoFilesFound" /\ ReadsAsGlobWhileDisabled(FailedPattern)) =>
        Resolve(options.cwd, FailedPattern) \notin ExistingFiles \cup ExistingDirs

\* C33, amended: the field is as above; with globInputPaths = false a pattern
\* with glob characters that names a file raises no NoFilesFound, and one
\* that names a directory raises it only if the walk of the directory
\* produces no entry.
C33_NoErrorForLiteralFile ==
    /\ GlobDisabledField
    /\ (hist.outcome = "NoFilesFound" /\ ReadsAsGlobWhileDisabled(FailedPattern)) =>
        /\ Resolve(options.cwd, FailedPattern) \notin ExistingFiles
        /\ Resolve(options.cwd, FailedPattern) \in ExistingDirs =>
                Expansion(FailedPattern) = {}
    /\ \A k \in Passed : Expansion(iter.patterns[k]) # {}

\* globbing is disabled and the pattern is the name of an empty directory:
\* NoFilesFound with globDisabled = true
C33_Witness ==
    /\ hist.outcome = "NoFilesFound" /\ last.op = "next" /\ ~options.globInputPaths
    /\ FailedPattern = Abs(DirEmpty)
    /\ last.data.globDisabled

\* globbing is disabled and the glob is the name of nothing
C33_WitnessMissing ==
    /\ hist.outcome = "NoFilesFound" /\ last.op = "next" /\ ~options.globInputPaths
    /\ FailedPattern = GlobInB /\ last.data.globDisabled

\* globbing is disabled, a pattern without glob characters names nothing
C33_WitnessNoGlob ==
    /\ hist.outcome = "NoFilesFound" /\ last.op = "next" /\ ~options.globInputPaths
    /\ FailedPattern = MissingFile /\ ~last.data.globDisabled

\* globbing is disabled and the patterns are the names of a file and of a
\* directory with a file: both were drained
C33_WitnessPassed ==
    /\ hist.outcome = "done" /\ ~options.globInputPaths
    /\ iter.patterns = <<GlobNamedFile, GlobNamedDirectory>>
    /\ Len(hist.entries) = 2

----------------------------------------------------------------------------
\* the glob tail of a pattern: the segments after the glob's parent
GlobTail(absPattern) ==
    SubSeq(absPattern, GlobParentLen(absPattern, 1) + 1, Len(absPattern))

\* the tail contains "**" or a path separator
TailDescends(absPattern) ==
    \/ Len(GlobTail(absPattern)) > 1
    \/ \E i \in 1..Len(GlobTail(absPattern)) : GlobTail(absPattern)[i] = "**"

\* the paths a pattern yields when a glob walk descends iff its tail has "**"
\* or a separator, and a directory walk always descends
YieldedByTail(pattern) ==
    LET absolutePath == Resolve(options.cwd, pattern)
        dotfiles == DotfilesPatternTest(pattern)
        BySelector(f) == MinimatchMatch(absolutePath, f)
        ByExtension(f) == ExtRegExpTest(f)
        Shown(entries) == {e.filePath : e \in {x \in entries : x.flag # IGNORED_SILENTLY}}
    IN CASE Strategy(pattern) = "glob" ->
                Shown(WalkEntries(GetGlobParent(absolutePath),
                                  TailDescends(absolutePath), dotfiles, BySelector))
         [] Strategy(pattern) = "directory" ->
                Shown(WalkEntries(absolutePath, TRUE, dotfiles, ByExtension))
         [] Strategy(pattern) = "file" -> {absolutePath}
         [] OTHER -> {}

\* the patterns whose glob parent is the root of the file system
ParentIsRoot(pattern) ==
    Strategy(pattern) = "glob" /\ GetGlobParent(Resolve(options.cwd, pattern)) = RootDir

\* C34: a glob walk descends into the subdirectories of the glob's parent iff
\* the glob tail contains "**" or a path separator (for a tail such as "*.js"
\* only the files directly in the parent are yielded), and the walk of a
\* directory pattern always descends: every drained pattern yielded every
\* file that such a walk gives, and nothing else is yielded.
C34_DescendsIffTailHasStarsOrSeparator ==
    /\ \A k \in Passed : \A f \in YieldedByTail(iter.patterns[k]) : EntriesOf(f) # {}
    /\ \A i \in 1..Len(hist.entries) : \E k \in 1..Len(iter.patterns) :
        k <= hist.at /\ hist.entries[i].filePath \in YieldedByTail(iter.patterns[k])
    /\ hist.outcome = "NoFilesFound" => YieldedByTail(FailedPattern) = {}

\* the same for the patterns whose glob parent is not the root
C34_DescendsBelowOtherParents ==
    /\ \A k \in Passed : ~ParentIsRoot(iter.patterns[k]) =>
        \A f \in YieldedByTail(iter.patterns[k]) : EntriesOf(f) # {}
    /\ (\A k \in 1..Len(iter.patterns) : ~ParentIsRoot(iter.patterns[k])) =>
        \A i \in 1..Len(hist.entries) : \E k \in 1..Len(iter.patterns) :
            k <= hist.at /\ hist.entries[i].filePath \in YieldedByTail(iter.patterns[k])
    /\ (hist.outcome = "NoFilesFound" /\ ~ParentIsRoot(FailedPattern)) =>
        YieldedByTail(FailedPattern) = {}

\* the glob with the tail "*.js" yields the two files of its parent only, the
\* glob with "**" in its tail also the file of the subdirectory
C34_FlatWalk ==
    /\ hist.outcome = "done" /\ options.globInputPaths
    /\ iter.patterns = <<GlobNamedFile>> /\ Len(hist.entries) = 2

C34_DeepWalk ==
    /\ hist.outcome = "done" /\ options.globInputPaths
    /\ iter.patterns = <<GlobRecursiveG>> /\ Len(hist.entries) = 3

\* the walk of the pattern "/**" did not descend
C34_RootNotDescended ==
    /\ hist.outcome = "NoFilesFound" /\ options.globInputPaths
    /\ FailedPattern = GlobAllUnderRoot

----------------------------------------------------------------------------
\* the position of a name in the listing of its directory
PositionIn(dir, name) == CHOOSE k \in 1..Len(Listing(dir)) : Listing(dir)[k] = name

\* the first index at which two different paths differ
FirstDifference(f, g) == CHOOSE i \in 1..Len(f) : i > Len(g) \/ f[i] # g[i]

\* depth-first order along the listings: where the two paths part, the name
\* on the way to f is listed before the name on the way to g
DepthFirstBefore(f, g) ==
    /\ f # g
    /\ LET i == FirstDifference(f, g)
       IN /\ i <= Len(g)
          /\ PositionIn(SubSeq(f, 1, i - 1), f[i]) < PositionIn(SubSeq(g, 1, i - 1), g[i])

\* the order of emission that the patterns and the file system fix
EmittedBefore(f, g) ==
    \/ FirstOccurrence(f) < FirstOccurrence(g)
    \/ FirstOccurrence(f) = FirstOccurrence(g) /\ DepthFirstBefore(f, g)

\* C35: the entries of one pattern are emitted in depth-first order along
\* each directory's listing (the entries of a subdirectory at the position of
\* the subdirectory in its parent's listing, before a later sibling file), and
\* the sequence of paths of a drained call is fixed by the patterns and the
\* file system alone: it is every yieldable path once, in that order, whatever
\* the caches held when the call ran.
C35_DepthFirstListingOrder ==
    /\ \A i, j \in 1..Len(hist.entries) :
        i < j => EmittedBefore(hist.entries[i].filePath, hist.entries[j].filePath)
    /\ \A i \in 1..Len(hist.entries) : Occurrences(hist.entries[i].filePath) # {}
    /\ hist.outcome = "done" =>
        \A k \in 1..Len(iter.patterns) : ~IsSkipped(iter.patterns[k]) =>
            \A e \in Yieldable(k) : EntriesOf(e.filePath) # {}

\* the recursive glob under /a was drained: the two files of /a/b, listed
\* second in /a, came before /a/one.js, listed third
C35_Witness ==
    /\ hist.outcome = "done" /\ iter.patterns = <<GlobRecursiveA>>
    /\ Len(hist.entries) = 3
    /\ hist.entries[1].filePath = <<"a", "b", "one.js">>
    /\ hist.entries[2].filePath = <<"a", "b", "two.js">>
    /\ hist.entries[3].filePath = <<"a", "one.js">>

\* the same call drained after the caches were filled by other calls
C35_WitnessOtherRun ==
    /\ C35_Witness /\ calls.total = MaxCalls

----------------------------------------------------------------------------
\* the step creates a generator
Starts == calls'.total = calls.total + 1 /\ last'.op = "iterate"

\* the step is a pull of the consumer
Pulls == iter.status = "suspended" /\ last'.op = "next" /\ iter' # iter

\* a directory and the directories above it
AncestorsOrSelf(d) == {SubSeq(d, 1, k) : k \in 0..Len(d)}

\* the top of the walk of a pattern
TopOf(pattern) ==
    IF Strategy(pattern) = "glob" THEN GetGlobParent(Resolve(options.cwd, pattern))
    ELSE Resolve(options.cwd, pattern)

\* the directories whose config the whole expansion of a pattern can ask for
TouchedBy(pattern) ==
    CASE Strategy(pattern) \in {"glob", "directory"} ->
            AncestorsOrSelf(TopOf(pattern))
                \cup {d \in ExistingDirs : IsUnder(TopOf(pattern), d)}
      [] Strategy(pattern) = "file" -> AncestorsOrSelf(Dirname(TopOf(pattern)))
      [] OTHER -> {}

\* the directories that the walk of a pattern has entered when it delivers
\* the file f: those above f, and those that come before f in the listings
EnteredBy(pattern, f) ==
    CASE Strategy(pattern) \in {"glob", "directory"} ->
            AncestorsOrSelf(TopOf(pattern))
                \cup {d \in ExistingDirs :
                        /\ IsUnder(TopOf(pattern), d)
                        /\ IsPrefix(d, f) \/ DepthFirstBefore(d, f)}
      [] OTHER -> TouchedBy(pattern)

\* the directories that the pulls up to the delivery of f can have asked for:
\* those of the patterns finished by this pull and those entered so far by
\* the pattern that yields f
AskedFor(f) ==
    UNION {TouchedBy(iter.patterns[j]) : j \in {n \in 1..(hist'.at - 1) : n >= hist.at}}
        \cup EnteredBy(iter.patterns[hist'.at], f)

\* the finalizeCache entries that the step adds
NewlyFinalized ==
    {slots'.finalizeCache[id] : id \in {n \in 1..Len(slots'.finalizeCache) :
        /\ slots'.finalizeCache[n] # 0
        /\ n > Len(slots.finalizeCache) \/ slots.finalizeCache[n] = 0}}

\* C36: iterateFiles is lazy.  Creating the generator changes no cache and
\* loads nothing; a step that is not a pull leaves the generator where it
\* is; and the pull that delivers an entry has loaded and cached configs only
\* for directories the walk has entered and for patterns up to the one being
\* expanded, and has finalized only the array of the delivered entry.
C36_LazyIteration ==
    [][/\ Starts => (heap' = heap /\ slots' = slots /\ last'.loads = << >>)
       /\ ~Pulls => (Starts \/ (iter' = iter /\ hist'.entries = hist.entries))
       /\ (Pulls /\ Len(hist'.entries) > Len(hist.entries)) =>
            LET f == hist'.entries[Len(hist'.entries)].filePath
            IN /\ \A i \in 1..Len(last'.loads) : last'.loads[i].dir \in AskedFor(f)
               /\ \A d \in AllDirs :
                    slots'.configCache[d] # slots.configCache[d] => d \in AskedFor(f)
               /\ NewlyFinalized \subseteq {hist'.entries[Len(hist'.entries)].config}]_vars

\* the first entry of the walk of /g was delivered: the subdirectory listed
\* after it and the directories of the second pattern were not asked for
C36_Witness ==
    /\ iter.status = "suspended" /\ iter.patterns = <<Abs(DirG), GlobInB>>
    /\ last.op = "next" /\ Len(hist.entries) = 1
    /\ hist.entries[1].filePath = <<"g", "*.js">>
    /\ Len(last.loads) > 0
    /\ \A i \in 1..Len(last.loads) : last.loads[i].dir \notin {DirStars, DirA, DirB}
    /\ slots.configCache[DirA] = 0

\* the consumer stopped pulling after the first entry and made another call:
\* the generator stayed where it was
C36_WitnessStopped ==
    /\ iter.status = "suspended" /\ iter.patterns = <<Abs(DirG), GlobInB>>
    /\ last.op = "get" /\ Len(hist.entries) = 1 /\ calls.total = MaxCalls

----------------------------------------------------------------------------
\* the elements of the array that getConfigArrayForFile returns for the path
\* when it is called in the current state (<<"error", e>> when it throws e)
ElementsFromGet(filePath) ==
    Bind(GetConfigArrayForFile(Now, Abs(filePath)), LAMBDA r :
        IF r.err # "" THEN <<"error", r.err>> ELSE r.s.heap[r.val])

\* the entry just delivered carries the elements that getConfigArrayForFile
\* gives for its path
LastEntryAsFromGet == heap[last.val] = ElementsFromGet(LastPath)

\* C37: every entry yielded by iterateFiles (from a glob walk, a directory
\* walk or a direct path) carries a config with the same element sequence as
\* the array getConfigArrayForFile(entry.filePath) returns on the same
\* enumerator and file system.
C37_EntryConfigAsFromGet == Yielded => LastEntryAsFromGet

\* no directory on the way from the top of the walk to the file has root: true
\* or is the home directory
PlainBelowTop(pattern, f) ==
    \A d \in DirsBetween(TopOf(pattern), Dirname(f)) :
        files[d] # "root" /\ d # homedir

\* the same for the entries of direct paths, and for the entries of walks
\* that pass no directory with root: true and no home directory, of a
\* generator created since the last clearCache()
C37_AsFromGetInPlainCascade ==
    (/\ Yielded /\ hist.at \in 1..Len(iter.patterns)
     /\ ~StartedBeforeClearCache
     /\ \/ Strategy(iter.patterns[hist.at]) = "file"
        \/ PlainBelowTop(iter.patterns[hist.at], LastPath)) => LastEntryAsFromGet

\* an entry of a walk below a directory with root: true carries the elements
\* of the directories above it, which getConfigArrayForFile leaves out
C37_RootTrueInWalk ==
    /\ Yielded /\ ~StartedBeforeClearCache /\ iter.patterns = <<GlobRecursiveA>>
    /\ files[DirB] = "root" /\ files[RootDir] = "plain" /\ homedir = DirX
    /\ LastPath = <<"a", "b", "one.js">>
    /\ \E i \in 1..Len(heap[last.val]) : heap[last.val][i].filePath = <<".eslintrc">>
    /\ \A i \in 1..Len(ElementsFromGet(LastPath)) :
            ElementsFromGet(LastPath)[i].filePath # <<".eslintrc">>

\* an entry of a walk through the home directory carries the config file of
\* the home directory as a project config
C37_HomeInWalk ==
    /\ Yielded /\ ~StartedBeforeClearCache /\ iter.patterns = <<GlobRecursiveA>>
    /\ homedir = DirA /\ options.cwd = RootDir
    /\ \A d \in AllDirs : files[d] # "root"
    /\ ~LastEntryAsFromGet

----------------------------------------------------------------------------
\* the finalizeCache entry of the array that the last call resolved
FinalOfRaw == slots.finalizeCache[last.raw]

\* the directory of the last getConfigArrayForFile call
LastDirectory == Dirname(Resolve(options.cwd, OrDefault(last.arg)))

\* C38: when finalization gives an empty array with useEslintrc = true, the
\* empty result is in the finalize cache when the call fails, and every later
\* call that finalizes the same raw array through the cache fails again with
\* ConfigurationNotFound, whose directoryPath is the directory of that call.
C38_EmptyResultCachedAndRaisedAgain ==
    /\ (last.op = "get" /\ last.raw # 0) =>
        /\ last.err = "ConfigurationNotFound" =>
            /\ FinalOfRaw # 0 /\ heap[FinalOfRaw] = << >>
            /\ last.data = LastDirectory
        /\ (options.useEslintrc /\ last.cached /\ heap[FinalOfRaw] = << >>) =>
            /\ last.err = "ConfigurationNotFound"
            /\ last.data = LastDirectory
    /\ (last.op = "next" /\ last.err = "ConfigurationNotFound") =>
        \E e \in Expansion(iter.patterns[hist.at]) : last.data = Dirname(e.filePath)

\* a call for /a/b failed through the cache entry that an earlier call for
\* another directory had made: only the config of /a/b was loaded
C38_Witness ==
    /\ last.op = "get" /\ last.cached /\ last.err = "ConfigurationNotFound"
    /\ last.data = DirB
    /\ last.loads = <<[dir |-> DirB, name |-> ".eslintrc"]>>

\* the generator failed so for a file it found
C38_WitnessNext == last.op = "next" /\ last.err = "ConfigurationNotFound"

----------------------------------------------------------------------------
\* the step leaves every entry of the finalize cache as it was and gives the
\* arrays it creates no entry
FinalizeCacheUnchanged ==
    \A id \in 1..Len(slots'.finalizeCache) :
        slots'.finalizeCache[id] =
            IF id <= Len(slots.finalizeCache) THEN slots.finalizeCache[id] ELSE 0

\* the resolved array has an element that validation rejects
RawIsInvalid(s, id) == id # 0 /\ ~ValidateConfigArray(s.heap[id])

\* C39: when validation fails in the finalizer the call fails with that
\* error and the finalize cache is left unchanged, with no entry for the raw
\* array, so that a repeated call for the same directory composes and
\* validates again and fails again; the per-directory cache keeps the entries
\* that the ancestor resolution of the failed call made.
C39_ValidationFailureNotCached ==
    [][Gets =>
        /\ RawIsInvalid(After, last'.raw) => last'.err = "ValidationError"
        /\ last'.err = "ValidationError" =>
            /\ FinalizeCacheUnchanged
            /\ last'.raw # 0 /\ slots'.finalizeCache[last'.raw] = 0
            /\ EntriesKept
            /\ options.useEslintrc =>
                    slots'.configCache[Dirname(Resolve(options.cwd, OrDefault(last'.arg)))]
                        = last'.raw
            /\ options.cliConfig = "obj" => Len(heap') > Len(heap)]_vars

\* the repeated call: the directory was resolved from the cache, the array
\* was composed again and validation failed again
C39_Witness ==
    /\ last.op = "get" /\ last.err = "ValidationError"
    /\ last.loads = << >> /\ calls.total >= 2
    /\ last.raw # 0 /\ slots.finalizeCache[last.raw] = 0
    /\ slots.configCache[LastDirectory] = last.raw

\* the first call that fails so
C39_WitnessFirst ==
    /\ last.op = "get" /\ last.err = "ValidationError" /\ Len(last.loads) > 0

----------------------------------------------------------------------------
\* C40: when an ancestor resolution fails with a load error other than
\* access-denied, the per-directory cache is exactly as before the call: no
\* entry was added for the failing directory, for a directory below it on the
\* walked chain or for one above it (and the finalize cache is as before).
C40_LoadErrorLeavesCache ==
    [][(Gets /\ last'.err = "LoadError") =>
        /\ slots'.configCache = slots.configCache
        /\ FinalizeCacheUnchanged]_vars

\* the resolution for /a/b failed at a directory above /a/b: the configs of
\* the directories below the failing one were loaded, and none has an entry
C40_Witness ==
    /\ last.op = "get" /\ last.err = "LoadError"
    /\ Len(last.loads) >= 2 /\ last.loads[1].dir = DirB
    /\ \A d \in AllDirs : slots.configCache[d] = 0

\* the same after a call that had cached the root: that entry is all the
\* cache holds
C40_WitnessKept ==
    /\ last.op = "get" /\ last.err = "LoadError"
    /\ slots.configCache[RootDir] # 0
    /\ slots.configCache[DirA] = 0 /\ slots.configCache[DirB] = 0

====
